---- MODULE Spec2Model ----
(***************************************************************************)
(* Verification model of the appchain agent:                               *)
(*   - TxHandler (src/src/tx.ts): the transaction queue and its worker;    *)
(*   - the socket endpoint (src/src/index.ts): the per-connection data     *)
(*     handler, executeCommand and the txer helper;                        *)
(*   - the Go bridge client (src/clients/go/chainbridge/chainbridge.go).   *)
(* Each part has its own specification over its own group of variables;    *)
(* the variables of the other parts stay at their initial values.          *)
(***************************************************************************)
EXTENDS Integers, Sequences, FiniteSets, TLC

\* ------------------------------------------------------------------------
\* Bounds of the model
\* ------------------------------------------------------------------------

\* Number of submitTx calls explored.
MaxTasks == 3

\* Largest account nonce the chain reports when the agent gives no nonce.
MaxChainNonce == 1

\* Number of connections to the socket endpoint.
NumConns == 2

\* Number of requests the clients send, over all connections.
MaxRequests == 2

\* Number of data handler calls of one connection that await a command at
\* the same time.
MaxActive == 2

\* Number of Command calls made on the bridge client.
MaxCalls == 2

\* Number of responses the server writes to the bridge client.
MaxResponses == 3

\* Number of times the peer closes the bridge client's connection.
MaxCloses == 1
MaxLines == 2

\* ------------------------------------------------------------------------
\* Shared constants of the program
\* ------------------------------------------------------------------------

SUCCESS == "SUCCESS"
FAILURE == "FAILURE"
PENDING == "PENDING"

\* `number | undefined`: the value of a nonce that has not been set.
Undefined == -1

VARIABLES
  \* ---- TxHandler (tx.ts) ----
  optsNonce,     \* opts.nonce: track the nonce internally
  txQueue,       \* TxHandler.txQueue: the queued tasks, oldest first
  isProcessing,  \* TxHandler.isProcessing
  nonce,         \* TxHandler.nonce
  promise,       \* per task: state of the promise submitTx returned
  settleCalls,   \* per task: how often resolve or reject was invoked
  workers,       \* per submitTx call: the processQueue() execution it started
  settleLog,     \* history: tasks in the order their promises settled
  broadcasts,    \* history: [task, nonce] of every transaction sent
  submitPhase,   \* history: per task, what the worker was doing at submitTx
  values,        \* history: per task, the response its promise was resolved with
  \* ---- socket endpoint (index.ts) ----
  socketFormat,  \* opts.socketFormat: "text" or "cbor"
  txerNonce,     \* the `nonce` of index.ts that txer reads and writes
  wire,          \* per connection: bytes the client wrote, not yet read
  buffer,        \* per connection: the handler's accumulation `buffer`
  nextId,     \* per connection: the handler's `id` (text mode)
  handlers,      \* per connection: data handler calls awaiting executeCommand
  out,           \* per connection: the responses written to the socket
  sent,          \* history: per connection, the requests the client sent
  dispatched,    \* history: per connection, the requests given to executeCommand
  overlap,       \* history: per connection, a read arrived during an await
  splitSeen,     \* history: per connection, a read ended inside a message
  multiSeen,     \* history: per connection, a read completed two messages
  txerBuilds,    \* history: the tracked nonce given to each client.transaction
  exited,        \* the endpoint process has ended
  cli,           \* one-shot mode: its position, what it printed, its exit status
  \* ---- Go bridge client (chainbridge.go) ----
  reconnect,     \* ChainBridge.reconnect
  isConnected,   \* ChainBridge.isConnected
  idCounter,     \* ChainBridge.idCounter
  responses,     \* ChainBridge.responses: request id -> response channel
  chans,         \* per Command call: the content of its responseChan
  calls,         \* per Command call: its position, request id and result
  engine,        \* ChainBridge.client: "none", "running" or "stopped"
  connUp,        \* ChainBridge.conn is an open connection
  closePending,  \* the engine has a close to report to onClose
  peerCloses,    \* how often the peer closed the connection
  dialers,       \* the connectToSocket executions: Start's and each onClose's
  requests,      \* request ids the server received on the open connection
  inbound,       \* responses written by the server, not yet read
  onDataPc,      \* the position of onData, the response and channel it holds
  responded,     \* history: number of responses the server wrote
  handed,        \* history: the responses onData put into a channel
  discarded,     \* history: the responses onData found no channel for
  cmd,           \* ChainBridge.cmd is set (the client spawns the backend)
  socketFile,    \* ChainBridge.socketFile
  output,        \* the lines of the process's output not yet scanned
  launch,        \* Start's position in its spawn part and its launch error
  stopResult,    \* how a call of Stop ended; "none" before any call
  dialled,       \* history: the addresses given to nbio.DialTimeout
  lastOk,        \* history: the most recent dial attempt dialled and added
  stream,        \* bytes written by the server, not yet read by the client
  written,       \* history: the ids of the responses written to stream
  decoded        \* history: the ids of the responses onData unmarshalled

txVars == <<optsNonce, txQueue, isProcessing, nonce, promise, settleCalls,
            workers, settleLog, broadcasts, submitPhase, values>>

epVars == <<socketFormat, txerNonce, wire, buffer, nextId, handlers, out,
            sent, dispatched, overlap, splitSeen, multiSeen, txerBuilds,
            exited, cli>>

cbVars == <<reconnect, isConnected, idCounter, responses, chans, calls, engine,
            connUp, closePending, peerCloses, dialers, requests, inbound,
            onDataPc, responded, handed, discarded,
            cmd, socketFile, output, launch, stopResult, dialled, lastOk,
            stream, written, decoded>>

launchVars == <<cmd, socketFile, output, launch, stopResult>>

attemptVars == <<dialled, lastOk>>

readerVars == <<stream, written, decoded>>

vars == <<optsNonce, txQueue, isProcessing, nonce, promise, settleCalls,
          workers, settleLog, broadcasts, submitPhase, values,
          socketFormat, txerNonce, wire, buffer, nextId, handlers, out,
          sent, dispatched, overlap, splitSeen, multiSeen, txerBuilds, exited, cli,
          reconnect, isConnected, idCounter, responses, chans, calls, engine,
          connUp, closePending, peerCloses, dialers, requests, inbound,
          onDataPc, responded, handed, discarded,
          cmd, socketFile, output, launch, stopResult, dialled, lastOk,
          stream, written, decoded>>

\* ========================================================================
\* TxHandler (src/src/tx.ts, lines 27-145)
\* ========================================================================

Tasks == 1..MaxTasks

\* No CommandResponse: a promise that has not been resolved.
NoValue == [status |-> "none", data |-> FALSE, error |-> FALSE, tx |-> FALSE]

NoWorker == [pc |-> "none", task |-> 0, nonceArg |-> Undefined,
             hasTx |-> FALSE, txNonce |-> Undefined, result |-> "none",
             response |-> NoValue]

\* Number of submitTx calls made so far.
Submitted == Cardinality({t \in Tasks : promise[t] # "unsubmitted"})

\* A guard that forgets the isProcessing flag.
ProcessQueueReturnsEarlyNoFlag(busy, q) == Len(q) = 0

\* processQueue's guard: `if (this.isProcessing || this.txQueue.length === 0) return;`
ProcessQueueReturnsEarly(busy, q) == busy \/ Len(q) = 0

\* A worker that takes the newest task instead of the oldest.
ProcessTxStartLast(q, n) ==
  [pc |-> "build", task |-> q[Len(q)], nonceArg |-> n,
   hasTx |-> FALSE, txNonce |-> Undefined, result |-> "none",
   response |-> NoValue]

\* processTx up to its first await: the nonce is read and client.transaction
\* is called for the task at the head of the queue.
ProcessTxStart(q, n) ==
  [pc |-> "build", task |-> q[1], nonceArg |-> n,
   hasTx |-> FALSE, txNonce |-> Undefined, result |-> "none",
   response |-> NoValue]

\* A loop head that starts the next task without the tracked nonce.
LoopHeadNoHint(q, n) ==
  IF Len(q) > 0 THEN ProcessTxStart(q, Undefined)
  ELSE [NoWorker EXCEPT !.pc = "done"]

\* The head of processQueue's while loop for queue q: either the next task
\* is started or the loop ends (and isProcessing is cleared).
LoopHead(q, n) ==
  IF Len(q) > 0 THEN ProcessTxStart(q, n)
  ELSE [NoWorker EXCEPT !.pc = "done"]

\* A shift that leaves the queue as it is.
ShiftNothing(q) == q

\* txQueue.shift(): removes the first element, a no-op on an empty queue.
Shift(q) == IF Len(q) = 0 THEN q ELSE Tail(q)

\* processTx is executing in w: started and its task not yet settled.
InFlight(w) == workers[w].pc \in {"build", "send", "status", "returned"}

\* What the worker is doing: "idle", "busy" in the middle of a task, or
\* "finishing" when the processTx of the last queued task has returned and
\* processQueue has not yet resumed.
WorkerPhase ==
  IF \E w \in Tasks : workers[w].pc = "returned" /\ Len(txQueue) = 1 THEN "finishing"
  ELSE IF \E w \in Tasks : InFlight(w) THEN "busy"
  ELSE "idle"

\* submitTx: the promise executor pushes the task and calls processQueue(),
\* which runs synchronously up to processTx's first await.
SubmitTx ==
  /\ Submitted < MaxTasks
  /\ LET t == Submitted + 1
         q == Append(txQueue, t)
     IN /\ txQueue' = q
        /\ promise' = [promise EXCEPT ![t] = "pending"]
        /\ submitPhase' = [submitPhase EXCEPT ![t] = WorkerPhase]
        /\ IF ProcessQueueReturnsEarly(isProcessing, q)
           THEN /\ workers' = [workers EXCEPT ![t] = [NoWorker EXCEPT !.pc = "skipped"]]
                /\ UNCHANGED isProcessing
           ELSE /\ isProcessing' = TRUE
                /\ workers' = [workers EXCEPT ![t] = ProcessTxStart(q, nonce)]
  /\ UNCHANGED <<epVars, cbVars>>
  /\ UNCHANGED <<optsNonce, nonce, settleCalls, settleLog, broadcasts, values>>

\* A build that takes the account nonce from the chain whatever is given.
BuiltNonceFetched(given, fetched) == fetched

\* The nonce of the transaction client.transaction builds: the one given,
\* or the account nonce fetched from the chain when none is given.
BuiltNonce(given, fetched) == IF given = Undefined THEN fetched ELSE given

\* `await this.client.transaction(...)` returns a transaction, which is signed
\* and handed to tx.send().
BuildOk(w, fetched) ==
  /\ workers[w].pc = "build"
  /\ workers' = [workers EXCEPT ![w].pc = "send", ![w].hasTx = TRUE,
                   ![w].txNonce = BuiltNonce(workers[w].nonceArg, fetched)]
  /\ UNCHANGED <<epVars, cbVars>>
  /\ UNCHANGED <<optsNonce, txQueue, isProcessing, nonce, promise, settleCalls,
                 settleLog, broadcasts, submitPhase, values>>

\* client.transaction returns a handle without a transaction
\* (`tx.transaction?.sign`), send() is still called.
BuildNoTx(w) ==
  /\ workers[w].pc = "build"
  /\ workers' = [workers EXCEPT ![w].pc = "send", ![w].hasTx = FALSE]
  /\ UNCHANGED <<epVars, cbVars>>
  /\ UNCHANGED <<optsNonce, txQueue, isProcessing, nonce, promise, settleCalls,
                 settleLog, broadcasts, submitPhase, values>>

\* client.transaction or sign throws: processTx's promise rejects.
BuildThrows(w) ==
  /\ workers[w].pc = "build"
  /\ workers' = [workers EXCEPT ![w].pc = "returned", ![w].result = "throw"]
  /\ UNCHANGED <<epVars, cbVars>>
  /\ UNCHANGED <<optsNonce, txQueue, isProcessing, nonce, promise, settleCalls,
                 settleLog, broadcasts, submitPhase, values>>

\* A tracked nonce that is stored without the increment.
NextNonceNoIncrement(track, cur, used) == IF track THEN used ELSE cur

\* `if (this.opts.nonce) this.nonce = Number(tx.transaction.nonce) + 1;`
NextNonce(track, cur, used) == IF track THEN used + 1 ELSE cur

\* `await tx.send()` returns: with a transaction the tracked nonce advances
\* and the status poll starts; without one processTx returns PENDING.
SendOk(w) ==
  /\ workers[w].pc = "send"
  /\ IF workers[w].hasTx
     THEN /\ nonce' = NextNonce(optsNonce, nonce, workers[w].txNonce)
          /\ broadcasts' = Append(broadcasts,
                                  [task |-> workers[w].task, nonce |-> workers[w].txNonce])
          /\ workers' = [workers EXCEPT ![w].pc = "status"]
     ELSE /\ workers' = [workers EXCEPT ![w].pc = "returned", ![w].result = PENDING,
                               ![w].response = [NoValue EXCEPT !.status = PENDING]]
          /\ UNCHANGED <<nonce, broadcasts>>
  /\ UNCHANGED <<epVars, cbVars>>
  /\ UNCHANGED <<optsNonce, txQueue, isProcessing, promise, settleCalls, settleLog,
                 submitPhase, values>>

\* tx.send() throws.
SendThrows(w) ==
  /\ workers[w].pc = "send"
  /\ workers' = [workers EXCEPT ![w].pc = "returned", ![w].result = "throw"]
  /\ UNCHANGED <<epVars, cbVars>>
  /\ UNCHANGED <<optsNonce, txQueue, isProcessing, nonce, promise, settleCalls,
                 settleLog, broadcasts, submitPhase, values>>

\* A response that puts the status message under `error` whatever the status.
ProcessTxResponseAsError(status, message) ==
  [status |-> status, data |-> FALSE, error |-> message, tx |-> TRUE]

\* processTx's return value for a transaction that was sent, where message
\* says whether getTxStatus gave a statusMessage; a field is TRUE when it
\* is set: `data: status !== FAILURE ? statusMessage : undefined`,
\* `error: status === FAILURE ? statusMessage : undefined`,
\* `tx: tx.transaction.hash().toString()`.
ProcessTxResponse(status, message) ==
  [status |-> status,
   data |-> IF status # FAILURE THEN message ELSE FALSE,
   error |-> IF status = FAILURE THEN message ELSE FALSE,
   tx |-> TRUE]

\* qry.processor.getTxStatus returns a status (PENDING when the retries are
\* exhausted) and processTx returns the response.
StatusReturns(w, status, message) ==
  /\ workers[w].pc = "status"
  /\ workers' = [workers EXCEPT ![w].pc = "returned", ![w].result = status,
                   ![w].response = ProcessTxResponse(status, message)]
  /\ UNCHANGED <<epVars, cbVars>>
  /\ UNCHANGED <<optsNonce, txQueue, isProcessing, nonce, promise, settleCalls,
                 settleLog, broadcasts, submitPhase, values>>

\* getTxStatus throws.
StatusThrows(w) ==
  /\ workers[w].pc = "status"
  /\ workers' = [workers EXCEPT ![w].pc = "returned", ![w].result = "throw"]
  /\ UNCHANGED <<epVars, cbVars>>
  /\ UNCHANGED <<optsNonce, txQueue, isProcessing, nonce, promise, settleCalls,
                 settleLog, broadcasts, submitPhase, values>>

\* A settlement that leaves the promise as it is.
SettleNothing(p, result) == p

\* The promise state after resolve(result) or reject(err): only the first
\* call settles a promise.
Settle(p, result) ==
  IF p # "pending" THEN p
  ELSE IF result = "throw" THEN "rejected" ELSE "resolved"

\* An error path that rejects every queued task, as the handler that
\* submitTx attaches to processQueue's promise does.
SettledByRejectAll(t, result, q) ==
  IF result = "throw" THEN {t} \cup {q[i] : i \in DOMAIN q} ELSE {t}

\* The tasks processQueue settles when processTx of task t ended with
\* `result`, with queue q: the try/catch settles the task of this iteration.
SettledBy(t, result, q) == {t}

\* The tasks of S whose promise is settled by this step, the task of the
\* iteration first.
NewlySettled(t, S, q) ==
  LET IsNew(x) == x \in S /\ promise[x] = "pending"
      Other(x) == x # t
  IN SelectSeq(<<t>> \o SelectSeq(q, Other), IsNew)

\* A loop that never clears isProcessing.
ProcessingAfterLoopStuck(q) == TRUE

\* isProcessing after the loop head: the loop goes on while the queue is not
\* empty, `this.isProcessing = false` follows it.
ProcessingAfterLoop(q) == Len(q) > 0

\* processQueue after `await this.processTx(...)`: resolve or reject the
\* task's promise, shift the queue, and go round the loop: start the next
\* task or clear isProcessing.
Continue(w) ==
  /\ workers[w].pc = "returned"
  /\ LET t == workers[w].task
         r == workers[w].result
         S == SettledBy(t, r, txQueue)
         q == Shift(txQueue)
     IN /\ promise' = [x \in Tasks |->
                         IF x \in S THEN Settle(promise[x], r) ELSE promise[x]]
        /\ settleCalls' = [x \in Tasks |->
                         IF x \in S THEN settleCalls[x] + 1 ELSE settleCalls[x]]
        /\ settleLog' = settleLog \o NewlySettled(t, S, txQueue)
        /\ values' = [x \in Tasks |->
                         IF x \in S /\ promise[x] = "pending" /\ r # "throw"
                         THEN workers[w].response ELSE values[x]]
        /\ txQueue' = q
        /\ workers' = [workers EXCEPT ![w] = LoopHead(q, nonce)]
        /\ isProcessing' = ProcessingAfterLoop(q)
  /\ UNCHANGED <<epVars, cbVars>>
  /\ UNCHANGED <<optsNonce, nonce, broadcasts, submitPhase>>

TxHandlerInit ==
  /\ optsNonce \in BOOLEAN
  /\ txQueue = <<>>
  /\ isProcessing = FALSE
  /\ nonce = Undefined
  /\ promise = [t \in Tasks |-> "unsubmitted"]
  /\ settleCalls = [t \in Tasks |-> 0]
  /\ workers = [t \in Tasks |-> NoWorker]
  /\ settleLog = <<>>
  /\ broadcasts = <<>>
  /\ submitPhase = [t \in Tasks |-> "none"]
  /\ values = [t \in Tasks |-> NoValue]

\* The endpoint before any connection is used.
EndpointIdle ==
  /\ socketFormat = "cbor"
  /\ txerNonce = Undefined
  /\ wire = <<>> /\ buffer = <<>> /\ nextId = <<>> /\ handlers = <<>>
  /\ out = <<>> /\ sent = <<>> /\ dispatched = <<>>
  /\ overlap = <<>> /\ splitSeen = <<>> /\ multiSeen = <<>>
  /\ txerBuilds = <<>>
  /\ exited = FALSE

\* The agent was not started in one-shot mode.
NoCli == [pc |-> "none", command |-> << >>, ipfs |-> FALSE,
          txNonce |-> Undefined, printed |-> << >>, code |-> "none"]

ListenMode == cli = NoCli

\* ChainBridge.dialRetries as NewChainBridge sets it.
dialRetries == 15

Calls == 1..MaxCalls

\* The connectToSocket executions: 0 is Start's, k that of the onClose for
\* the k-th close by the peer.
Dialers == 0..MaxCloses

\* Start has not reached its spawn part; no launch error.
NotLaunched == [pc |-> "none", err |-> "none"]

\* The socket path given to NewChainBridge, as UTF-8: "/s".
SocketPath == <<47, 115>>

\* A connectToSocket execution that has not started: its position, its loop
\* counter i, whether it returned the error, how often its caller gave an
\* error to handleError, and whether the connection whose close started it
\* had been marked connected.
NoDialer == [pc |-> "none", i |-> 0, err |-> FALSE, handled |-> 0, est |-> FALSE]

\* The zero value of CommandResponse (`var response CommandResponse`).
NoResponse == [id |-> 0, serial |-> 0]

\* NewChainBridge: the client after construction, no Command called yet.
NewChainBridge ==
  /\ reconnect = TRUE
  /\ isConnected = FALSE
  /\ idCounter = 0
  /\ responses = << >>
  /\ chans = [g \in Calls |-> << >>]
  /\ calls = [g \in Calls |-> [pc |-> "idle", reqID |-> 0,
                                response |-> NoResponse, err |-> "none"]]
  /\ engine = "none"
  /\ connUp = FALSE
  /\ closePending = FALSE
  /\ peerCloses = 0
  /\ dialers = [d \in Dialers |-> NoDialer]
  /\ requests = {}
  /\ inbound = << >>
  /\ onDataPc = [pc |-> "idle", response |-> NoResponse, ch |-> 0]
  /\ responded = 0
  /\ handed = << >>
  /\ discarded = {}
  /\ launch = NotLaunched
  /\ stopResult = "none"
  /\ dialled = {}
  /\ lastOk = FALSE
  /\ stream = << >>
  /\ written = << >>
  /\ decoded = << >>

\* NewChainBridge called with a socket path: no command, nothing to scan.
WithSocketPath ==
  /\ cmd = FALSE
  /\ socketFile = SocketPath
  /\ output = << >>

InitTx == ListenMode /\ TxHandlerInit /\ EndpointIdle /\ NewChainBridge /\ WithSocketPath

NextTx ==
  \/ SubmitTx
  \/ \E w \in Tasks, fetched \in 0..MaxChainNonce : BuildOk(w, fetched)
  \/ \E w \in Tasks : BuildNoTx(w)
  \/ \E w \in Tasks : BuildThrows(w)
  \/ \E w \in Tasks : SendOk(w)
  \/ \E w \in Tasks : SendThrows(w)
  \/ \E w \in Tasks, status \in {SUCCESS, FAILURE, PENDING}, message \in BOOLEAN :
       StatusReturns(w, status, message)
  \/ \E w \in Tasks : StatusThrows(w)
  \/ \E w \in Tasks : Continue(w)

SpecTx == InitTx /\ [][NextTx]_vars

\* Every backend call (build, broadcast, status poll) eventually returns or
\* throws, and the event loop eventually resumes processQueue.
WorkerStep ==
  \/ \E w \in Tasks, fetched \in 0..MaxChainNonce : BuildOk(w, fetched)
  \/ \E w \in Tasks : BuildNoTx(w) \/ BuildThrows(w)
  \/ \E w \in Tasks : SendOk(w) \/ SendThrows(w)
  \/ \E w \in Tasks, status \in {SUCCESS, FAILURE, PENDING}, message \in BOOLEAN :
       StatusReturns(w, status, message)
  \/ \E w \in Tasks : StatusThrows(w)
  \/ \E w \in Tasks : Continue(w)

SpecTxFair == InitTx /\ [][NextTx]_vars /\ WF_vars(WorkerStep)

Settled(t) == promise[t] \in {"resolved", "rejected"}

\* ------------------------------------------------------------------------
\* Properties of TxHandler
\* ------------------------------------------------------------------------

\* C1: the promises of the submitted tasks settle in the order of the
\* submitTx calls (tasks are numbered in that order), whatever the backend
\* latencies and whatever the worker was doing at submission.
C1_FifoSettlement == \A i \in 1..Len(settleLog) : settleLog[i] = i

\* All tasks are settled, one was submitted to an idle worker and another
\* in the middle of a task.
C1_Witness ==
  /\ Len(settleLog) = MaxTasks
  /\ submitPhase[1] = "idle"
  /\ \E t \in Tasks : submitPhase[t] = "busy"

\* C2: at most one processTx execution is between its start and the
\* settlement of its task, and while task N is being processed every task
\* before it has been settled.
C2_SingleFlight ==
  /\ Cardinality({w \in Tasks : InFlight(w)}) <= 1
  /\ \A w \in Tasks : InFlight(w) =>
        \A t \in 1..(workers[w].task - 1) : Settled(t)

\* Task 2 was submitted while task 1 was in flight and is now being
\* broadcast, a third task waits.
C2_Witness ==
  /\ submitPhase[2] = "busy"
  /\ \E w \in Tasks : workers[w].task = 2 /\ workers[w].pc = "send"
  /\ Len(txQueue) >= 2

\* C3: with nonce tracking, each successfully broadcast transaction uses
\* the nonce of the previous successfully broadcast one plus 1, also with
\* failed tasks between them.
C3_NonceSuccession ==
  optsNonce =>
    \A i \in 1..(Len(broadcasts) - 1) :
      broadcasts[i + 1].nonce = broadcasts[i].nonce + 1

\* Two broadcasts with a rejected task between them.
C3_Witness ==
  /\ optsNonce
  /\ Len(broadcasts) >= 2
  /\ \E t \in Tasks :
       /\ broadcasts[1].task < t /\ t < broadcasts[2].task
       /\ promise[t] = "rejected"

\* C4: when processTx of a task throws, the step that handles it rejects
\* that task's promise and touches no other promise; it removes exactly
\* that task from the queue and starts the next queued task.
C4_FailureIsLocal ==
  [][\A w \in Tasks :
       (workers[w].pc = "returned" /\ workers[w].result = "throw"
          /\ workers'[w] # workers[w]) =>
         LET t == workers[w].task
         IN /\ promise[t] = "pending" /\ promise'[t] = "rejected"
            /\ \A x \in Tasks \ {t} :
                 promise'[x] = promise[x] /\ settleCalls'[x] = settleCalls[x]
            /\ Len(txQueue) > 0 /\ Head(txQueue) = t
            /\ txQueue' = Tail(txQueue)
            /\ Len(txQueue') > 0 =>
                 /\ workers'[w].pc = "build"
                 /\ workers'[w].task = Head(txQueue')
                 /\ isProcessing']_vars

\* Task 1 failed before any broadcast succeeded, the worker is on task 2
\* and task 3 is still queued and pending.
C4_Witness ==
  /\ promise[1] = "rejected"
  /\ broadcasts = <<>>
  /\ \E w \in Tasks : workers[w].task = 2 /\ workers[w].pc = "build"
  /\ txQueue = <<2, 3>>
  /\ promise[2] = "pending" /\ promise[3] = "pending"

\* C5: every submitted task is eventually settled, given that every backend
\* call eventually returns or throws: no task stays pending for ever.  (A
\* promise goes from unsubmitted to pending to resolved or rejected, so
\* "infinitely often not pending" says that a pending task gets settled.)
C5_EventuallySettled ==
  \A t \in Tasks : []<>(promise[t] # "pending")

\* A task submitted when the worker was finishing its last task, and one
\* submitted in the middle of a task, have both been settled.
C5_Witness ==
  \E t, u \in Tasks :
    /\ submitPhase[t] = "finishing" /\ Settled(t)
    /\ submitPhase[u] = "busy" /\ Settled(u)

\* ========================================================================
\* The binary frame codec: cbor.encode / cbor.decodeFirstSync as used by
\* src/src/index.ts, lines 754-779.  Bytes are numbers 0..255.  The model
\* covers the part of the format that the requests use: unsigned integers
\* below 24, text strings shorter than 24 bytes and maps of fewer than 24
\* pairs, each with a one-byte head (major type * 32 + count).
\* ========================================================================

MajorUint == 0
MajorText == 3
MajorMap == 5
HeadUnit == 32
InlineLimit == 24

\* The field names of CommandRequest, as UTF-8: "command" and "id".
KeyCommand == <<99, 111, 109, 109, 97, 110, 100>>
KeyId == <<105, 100>>

\* A request without the optional id.
NoId == -1

EncUint(n) == <<MajorUint * HeadUnit + n>>
EncText(t) == <<MajorText * HeadUnit + Len(t)>> \o t

\* The encoding of CommandRequest {command, id?}: a map of its present fields.
EncodeRequest(req) ==
  IF req.id = NoId
  THEN <<MajorMap * HeadUnit + 1>> \o EncText(KeyCommand) \o EncText(req.command)
  ELSE <<MajorMap * HeadUnit + 2>> \o EncText(KeyCommand) \o EncText(req.command)
         \o EncText(KeyId) \o EncUint(req.id)

DecodeFail == [ok |-> FALSE]

RECURSIVE DecodeItem(_, _), DecodeItems(_, _, _)

\* Decode one data item of buf starting at index pos (1-based): either
\* [ok |-> FALSE] (the bytes end before the item does, or the head is not of
\* the modelled part of the format) or the value and the index after it.
DecodeItem(buf, pos) ==
  IF pos > Len(buf) THEN DecodeFail
  ELSE LET major == buf[pos] \div HeadUnit
           info == buf[pos] % HeadUnit
       IN IF info >= InlineLimit THEN DecodeFail
          ELSE IF major = MajorUint
          THEN [ok |-> TRUE, value |-> [t |-> "uint", n |-> info], next |-> pos + 1]
          ELSE IF major = MajorText
          THEN IF pos + info > Len(buf) THEN DecodeFail
               ELSE [ok |-> TRUE,
                     value |-> [t |-> "text", s |-> SubSeq(buf, pos + 1, pos + info)],
                     next |-> pos + 1 + info]
          ELSE IF major = MajorMap
          THEN LET r == DecodeItems(buf, pos + 1, 2 * info)
               IN IF r.ok
                  THEN [ok |-> TRUE, value |-> [t |-> "map", kv |-> r.items],
                        next |-> r.next]
                  ELSE DecodeFail
          ELSE DecodeFail

\* Decode count consecutive items (the keys and values of a map).
DecodeItems(buf, pos, count) ==
  IF count = 0 THEN [ok |-> TRUE, items |-> <<>>, next |-> pos]
  ELSE LET first == DecodeItem(buf, pos)
       IN IF ~first.ok THEN DecodeFail
          ELSE LET rest == DecodeItems(buf, first.next, count - 1)
               IN IF ~rest.ok THEN DecodeFail
                  ELSE [ok |-> TRUE, items |-> <<first.value>> \o rest.items,
                        next |-> rest.next]

\* cbor.decodeFirstSync(buffer, {extendedResults: true, required: true}):
\* throws (ok = FALSE) when the buffer holds no complete item, else returns
\* the first item and the number of bytes it takes; bytes after it are left.
DecodeFirstSync(buf) ==
  LET r == DecodeItem(buf, 1)
  IN IF r.ok THEN [ok |-> TRUE, value |-> r.value, length |-> r.next - 1]
     ELSE DecodeFail

\* The value of key k in a decoded map (the last pair wins), or `absent`.
RECURSIVE MapGet(_, _, _, _)
MapGet(kv, i, k, absent) ==
  IF i + 1 > Len(kv) THEN absent
  ELSE LET later == MapGet(kv, i + 2, k, absent)
       IN IF later # absent THEN later
          ELSE IF kv[i].t = "text" /\ kv[i].s = k THEN kv[i + 1] ELSE absent

\* The command of a request that has none (`command` is undefined).
NoCommand == <<>>

\* `decoded.value as CommandRequest` and executeCommand's
\* `const { command, payload, id } = request`: the fields are taken as they
\* are, a value that is no map has none of them.
AsCommandRequest(value) ==
  LET absent == [t |-> "absent"]
      c == IF value.t = "map" THEN MapGet(value.kv, 1, KeyCommand, absent) ELSE absent
      i == IF value.t = "map" THEN MapGet(value.kv, 1, KeyId, absent) ELSE absent
  IN [command |-> IF c.t = "text" THEN c.s ELSE NoCommand,
      id |-> IF i.t = "uint" THEN i.n ELSE NoId]

\* buffer.subarray(n): the buffer without its first n bytes (empty when it
\* has no more than n).
SubArray(buf, n) == IF n >= Len(buf) THEN <<>> ELSE SubSeq(buf, n + 1, Len(buf))


\* ========================================================================
\* The socket endpoint (src/src/index.ts): txer (lines 152-183),
\* executeCommand (lines 189-680) and the server's data handler
\* (lines 741-781).
\* ========================================================================

Conns == 1..NumConns

\* The commands the clients send, as UTF-8: "q" stands for a query (such as
\* `token getBalance`), "t" for a mutating command (such as `faucet drip`),
\* "u" for a command the program does not know.
CmdQuery == <<113>>
CmdTx == <<116>>
CmdUnknown == <<117>>
ClientCommands == {CmdQuery, CmdTx, CmdUnknown}

Newline == 10
Whitespace == {9, 10, 13, 32}

\* executeCommand's registry: what the action of a command does.  A query
\* awaits one backend call, a mutating command awaits txer; anything else
\* (an unknown command, a request without a command) is answered FAILURE
\* before executeCommand's promise resolves, without awaiting a backend.
CommandKind(command) ==
  IF command = CmdQuery THEN "query"
  ELSE IF command = CmdTx THEN "tx"
  ELSE "unknown"

\* A handler that calls executeCommand without awaiting it.
AwaitsCommandMissing == FALSE

\* Whether the data handler awaits executeCommand before it goes on
\* (`await executeCommand(...)`).
AwaitsCommand == TRUE

\* String.prototype.trim(): without leading and trailing white space.
RECURSIVE TrimLeft(_), TrimRight(_)
TrimLeft(b) ==
  IF Len(b) > 0 /\ b[1] \in Whitespace THEN TrimLeft(Tail(b)) ELSE b
TrimRight(b) ==
  IF Len(b) > 0 /\ b[Len(b)] \in Whitespace
  THEN TrimRight(SubSeq(b, 1, Len(b) - 1)) ELSE b
Trim(b) == TrimRight(TrimLeft(b))

\* The response of a command that fails without awaiting a backend:
\* `callback({ id, status: FAILURE, error })`.
FailureResponse(req) == [id |-> req.id, status |-> FAILURE, error |-> TRUE]

\* A response that leaves the id out.
CommandResultNoId(req, status) ==
  [id |-> NoId, status |-> status, error |-> (status = FAILURE)]

\* The response of a command that awaited a backend: `{ id, status, data }`
\* of a query, `{ id, ...r }` with txer's result, or the FAILURE of
\* executeCommand's catch (`error: err.message`).  `error` says whether the
\* response has an error text: txer sets it `status === FAILURE ?
\* statusMessage : undefined`.
CommandResult(req, status) ==
  [id |-> req.id, status |-> status, error |-> (status = FAILURE)]

\* process.exit as Node defines it.
ProcessExitOriginal == "exits"

\* What a call of process.exit does in listen mode:
\* `process.exit = () => { throw new Error("commander exit"); }`.
ProcessExit == "throws"

\* Whether answering req calls process.exit.  Commander reports a command
\* it does not know through writeErr and then exits; a binary request
\* without a command throws in `command.split` before Commander runs.  In
\* both cases the callback has been called once when the catch is reached.
CallsExit(req) ==
  /\ CommandKind(req.command) = "unknown"
  /\ ~(socketFormat = "cbor" /\ req.command = NoCommand)

\* executeCommand called with req, up to the first backend await: the
\* pending command. A mutating command calls txer, which reads `nonce` and
\* calls client.transaction.
StartCommand(req, declen, n) ==
  [req |-> req, declen |-> declen,
   stage |-> IF CommandKind(req.command) = "tx" THEN "build" ELSE "query",
   nonceArg |-> n, txNonce |-> Undefined, waits |-> AwaitsCommand]

\* A buffer trim that drops everything read so far.
SubArrayAll(buf, n) == <<>>

\* The rest of the buffer after a message of n bytes has been processed:
\* `buffer = buffer.subarray(decoded.length)`.
RemoveProcessed(buf, n) == SubArray(buf, n)

\* A catch that throws the buffer away.
AfterDecodeErrorCleared(buf) == << >>

\* The buffer after decodeFirstSync threw: `catch (err) { break; }` leaves
\* it as it is.
AfterDecodeError(buf) == buf

\* The cbor handler's `while (buffer.length > 0)` loop from its head, with
\* the buffer buf, the responses written so far o, the dispatches so far
\* log, the txer nonce n and the commands started so far acts.  The loop
\* runs until the buffer is empty, decoding fails (break) or it awaits an
\* executeCommand that awaits a backend.
RECURSIVE DecodeLoop(_, _, _, _, _)
DecodeLoop(buf, o, log, n, acts) ==
  LET stop == [buf |-> buf, out |-> o, log |-> log, acts |-> acts,
               exit |-> FALSE]
  IN IF Len(buf) = 0 THEN stop
     ELSE LET d == DecodeFirstSync(buf)
          IN IF ~d.ok THEN [stop EXCEPT !.buf = AfterDecodeError(buf)]
             ELSE LET req == AsCommandRequest(d.value)
                      log2 == Append(log, req)
                  IN IF CallsExit(req) /\ ProcessExit = "exits"
                     THEN [stop EXCEPT !.out = Append(o, FailureResponse(req)),
                                       !.log = log2, !.exit = TRUE]
                     ELSE IF CommandKind(req.command) = "unknown"
                     THEN DecodeLoop(RemoveProcessed(buf, d.length),
                                     Append(o, FailureResponse(req)), log2, n, acts)
                     ELSE LET a == StartCommand(req, d.length, n)
                          IN IF a.waits
                             THEN [stop EXCEPT !.log = log2, !.acts = Append(acts, a)]
                             ELSE DecodeLoop(RemoveProcessed(buf, d.length), o, log2,
                                             n, Append(acts, a))

\* The tracked nonces given to client.transaction by the commands of acts.
RECURSIVE BuildsOf(_)
BuildsOf(acts) ==
  IF Len(acts) = 0 THEN <<>>
  ELSE (IF Head(acts).stage = "build" THEN <<Head(acts).nonceArg>> ELSE <<>>)
         \o BuildsOf(Tail(acts))

\* Requests sent by all clients so far.
RECURSIVE SentCount(_)
SentCount(n) == IF n = 0 THEN 0 ELSE Len(sent[n]) + SentCount(n - 1)

\* A client writes one request to its connection: in binary mode the
\* encoding of {command, id} with the next id of that client, in text mode
\* the command line.  Connections are numbered in the order of their first
\* request.
ClientSend(c, command, withId) ==
  /\ ~exited
  /\ socketFormat = "text" => ~withId
  /\ SentCount(NumConns) < MaxRequests
  /\ IF c = 1 THEN TRUE ELSE Len(sent[c - 1]) > 0
  /\ LET req == [command |-> command,
                 id |-> IF withId THEN Len(sent[c]) + 1 ELSE NoId]
     IN /\ sent' = [sent EXCEPT ![c] = Append(@, req)]
        /\ wire' = [wire EXCEPT ![c] =
                      @ \o (IF socketFormat = "cbor" THEN EncodeRequest(req)
                            ELSE command \o <<Newline>>)]
  /\ UNCHANGED <<socketFormat, txerNonce, buffer, nextId, handlers, out,
                 dispatched, overlap, splitSeen, multiSeen, txerBuilds,
                 exited>>
  /\ UNCHANGED <<txVars, cbVars, cli>>

\* A data handler call of connection c is suspended in its await.
HandlerAwaiting(c) == \E h \in DOMAIN handlers[c] : handlers[c][h].waits

\* Two complete messages at the head of buf.
HoldsTwoMessages(buf) ==
  LET d == DecodeFirstSync(buf)
  IN d.ok /\ DecodeFirstSync(SubArray(buf, d.length)).ok

\* socket.on("data") in text mode, with a read of the first k unread bytes:
\* the read is one request, its command the trimmed text of the read, its id
\* the next number of the connection.
DataText(c) ==
  /\ ~exited
  /\ socketFormat = "text"
  /\ Len(handlers[c]) < MaxActive
  /\ \E k \in 1..Len(wire[c]) :
       LET req == [command |-> Trim(SubSeq(wire[c], 1, k)), id |-> nextId[c]]
           a == StartCommand(req, 0, txerNonce)
       IN /\ wire' = [wire EXCEPT ![c] = SubArray(@, k)]
          /\ nextId' = [nextId EXCEPT ![c] = @ + 1]
          /\ dispatched' = [dispatched EXCEPT ![c] = Append(@, req)]
          /\ overlap' = [overlap EXCEPT ![c] = @ \/ HandlerAwaiting(c)]
          /\ exited' = (CallsExit(req) /\ ProcessExit = "exits")
          /\ IF CommandKind(req.command) = "unknown"
             THEN /\ out' = [out EXCEPT ![c] = Append(@, FailureResponse(req))]
                  /\ UNCHANGED <<handlers, txerBuilds>>
             ELSE /\ handlers' = [handlers EXCEPT ![c] = Append(@, a)]
                  /\ txerBuilds' = txerBuilds \o BuildsOf(<<a>>)
                  /\ UNCHANGED out
  /\ UNCHANGED <<socketFormat, txerNonce, buffer, sent, splitSeen, multiSeen>>
  /\ UNCHANGED <<txVars, cbVars, cli>>

\* socket.on("data") in cbor mode, with a read of the first k unread bytes:
\* the read is appended to the buffer and the decode loop runs.
DataCbor(c) ==
  /\ ~exited
  /\ socketFormat = "cbor"
  /\ Len(handlers[c]) < MaxActive
  /\ \E k \in 1..Len(wire[c]) :
       LET buf == buffer[c] \o SubSeq(wire[c], 1, k)
           r == DecodeLoop(buf, out[c], dispatched[c], txerNonce, <<>>)
       IN /\ wire' = [wire EXCEPT ![c] = SubArray(@, k)]
          /\ buffer' = [buffer EXCEPT ![c] = r.buf]
          /\ out' = [out EXCEPT ![c] = r.out]
          /\ dispatched' = [dispatched EXCEPT ![c] = r.log]
          /\ handlers' = [handlers EXCEPT ![c] = @ \o r.acts]
          /\ txerBuilds' = txerBuilds \o BuildsOf(r.acts)
          /\ overlap' = [overlap EXCEPT ![c] = @ \/ HandlerAwaiting(c)]
          /\ splitSeen' = [splitSeen EXCEPT ![c] =
                             @ \/ (Len(r.buf) > 0 /\ ~DecodeFirstSync(r.buf).ok)]
          /\ multiSeen' = [multiSeen EXCEPT ![c] = @ \/ HoldsTwoMessages(buf)]
          /\ exited' = r.exit
  /\ UNCHANGED <<socketFormat, txerNonce, nextId, sent>>
  /\ UNCHANGED <<txVars, cbVars, cli>>

\* A callback that writes its response twice.
WrittenTwice(o, res) == Append(Append(o, res), res)

\* The responses written to a socket after the callback of a command wrote
\* res: `socket.write(...)`, once.
Written(o, res) == Append(o, res)

\* A completion that takes the oldest pending call instead of its own.
RemoveOldest(s, h) == Tail(s)

\* s without its h-th element.
RemoveAt(s, h) == SubSeq(s, 1, h - 1) \o SubSeq(s, h + 1, Len(s))

\* The command of handler call h on connection c ends with response res:
\* the callback writes the response, executeCommand resolves and the handler
\* goes on after its await: in cbor mode it removes the processed bytes
\* from the buffer as it is now and continues its loop.
Resume(c, h, res) ==
  LET a == handlers[c][h]
      o == Written(out[c], res)
      rest == RemoveAt(handlers[c], h)
  IN IF socketFormat = "cbor" /\ a.waits
     THEN LET r == DecodeLoop(RemoveProcessed(buffer[c], a.declen), o,
                              dispatched[c], txerNonce', <<>>)
          IN /\ buffer' = [buffer EXCEPT ![c] = r.buf]
             /\ out' = [out EXCEPT ![c] = r.out]
             /\ dispatched' = [dispatched EXCEPT ![c] = r.log]
             /\ handlers' = [handlers EXCEPT ![c] = rest \o r.acts]
             /\ txerBuilds' = txerBuilds \o BuildsOf(r.acts)
             /\ exited' = r.exit
     ELSE /\ out' = [out EXCEPT ![c] = o]
          /\ handlers' = [handlers EXCEPT ![c] = rest]
          /\ UNCHANGED <<buffer, dispatched, txerBuilds, exited>>

\* The backend call of a query returns (SUCCESS) or throws (FAILURE, from
\* executeCommand's catch).
QueryReturns(c, h, status) ==
  /\ ~exited
  /\ h \in DOMAIN handlers[c]
  /\ handlers[c][h].stage = "query"
  /\ txerNonce' = txerNonce
  /\ Resume(c, h, CommandResult(handlers[c][h].req, status))
  /\ UNCHANGED <<socketFormat, wire, nextId, sent, overlap, splitSeen, multiSeen>>
  /\ UNCHANGED <<txVars, cbVars, cli>>

\* txer: `await client.transaction(publicKey, txfn, { nonce })` returns and
\* the signed transaction is handed to tx.send().
TxerBuildReturns(c, h, fetched) ==
  /\ ~exited
  /\ h \in DOMAIN handlers[c]
  /\ handlers[c][h].stage = "build"
  /\ handlers' = [handlers EXCEPT ![c][h].stage = "send",
                    ![c][h].txNonce = BuiltNonce(handlers[c][h].nonceArg, fetched)]
  /\ UNCHANGED <<socketFormat, txerNonce, wire, buffer, nextId, out, sent,
                 dispatched, overlap, splitSeen, multiSeen, txerBuilds,
                 exited>>
  /\ UNCHANGED <<txVars, cbVars, cli>>

\* txer: `await tx.send()` returns, `if (opts.nonce) nonce = ... + 1`, and
\* the status poll starts.
TxerSendReturns(c, h) ==
  /\ ~exited
  /\ h \in DOMAIN handlers[c]
  /\ handlers[c][h].stage = "send"
  /\ handlers' = [handlers EXCEPT ![c][h].stage = "status"]
  /\ txerNonce' = NextNonce(optsNonce, txerNonce, handlers[c][h].txNonce)
  /\ UNCHANGED <<socketFormat, wire, buffer, nextId, out, sent,
                 dispatched, overlap, splitSeen, multiSeen, txerBuilds,
                 exited>>
  /\ UNCHANGED <<txQueue, isProcessing, nonce, promise, settleCalls, workers,
                 settleLog, broadcasts, submitPhase, values, optsNonce>>
  /\ UNCHANGED <<cbVars, cli>>

\* txer: getTxnStatus returns and the command's callback gets the result.
TxerStatusReturns(c, h, status) ==
  /\ ~exited
  /\ h \in DOMAIN handlers[c]
  /\ handlers[c][h].stage = "status"
  /\ txerNonce' = txerNonce
  /\ Resume(c, h, CommandResult(handlers[c][h].req, status))
  /\ UNCHANGED <<socketFormat, wire, nextId, sent, overlap, splitSeen, multiSeen>>
  /\ UNCHANGED <<txVars, cbVars, cli>>

\* txer throws (in client.transaction, sign, send or getTxnStatus):
\* executeCommand's catch answers FAILURE.
TxerThrows(c, h) ==
  /\ ~exited
  /\ h \in DOMAIN handlers[c]
  /\ handlers[c][h].stage \in {"build", "send", "status"}
  /\ txerNonce' = txerNonce
  /\ Resume(c, h, CommandResult(handlers[c][h].req, FAILURE))
  /\ UNCHANGED <<socketFormat, wire, nextId, sent, overlap, splitSeen, multiSeen>>
  /\ UNCHANGED <<txVars, cbVars, cli>>

EndpointInit ==
  /\ socketFormat \in {"text", "cbor"}
  /\ txerNonce = Undefined
  /\ wire = [c \in Conns |-> <<>>]
  /\ buffer = [c \in Conns |-> <<>>]
  /\ nextId = [c \in Conns |-> 0]
  /\ handlers = [c \in Conns |-> <<>>]
  /\ out = [c \in Conns |-> <<>>]
  /\ sent = [c \in Conns |-> <<>>]
  /\ dispatched = [c \in Conns |-> <<>>]
  /\ overlap = [c \in Conns |-> FALSE]
  /\ splitSeen = [c \in Conns |-> FALSE]
  /\ multiSeen = [c \in Conns |-> FALSE]
  /\ txerBuilds = <<>>
  /\ exited = FALSE

InitEndpoint == ListenMode /\ TxHandlerInit /\ EndpointInit /\ NewChainBridge /\ WithSocketPath

Slots == 1..MaxActive

NextEndpoint ==
  \/ \E c \in Conns, command \in ClientCommands, withId \in BOOLEAN :
       ClientSend(c, command, withId)
  \/ \E c \in Conns : DataText(c)
  \/ \E c \in Conns : DataCbor(c)
  \/ \E c \in Conns, h \in Slots, status \in {SUCCESS, FAILURE} : QueryReturns(c, h, status)
  \/ \E c \in Conns, h \in Slots, fetched \in 0..MaxChainNonce : TxerBuildReturns(c, h, fetched)
  \/ \E c \in Conns, h \in Slots : TxerSendReturns(c, h)
  \/ \E c \in Conns, h \in Slots, status \in {SUCCESS, FAILURE, PENDING} :
       TxerStatusReturns(c, h, status)
  \/ \E c \in Conns, h \in Slots : TxerThrows(c, h)

SpecEndpoint == InitEndpoint /\ [][NextEndpoint]_vars


\* ========================================================================
\* The Go bridge client (src/clients/go/chainbridge/chainbridge.go)
\* ========================================================================

\* sync.Map.Store and sync.Map.Delete on the table of response channels.
Store(m, k, v) == [x \in DOMAIN m \cup {k} |-> IF x = k THEN v ELSE m[x]]
\* A Delete that empties the table.
DeleteAll(m, k) == << >>

\* sync.Map.Delete.
Delete(m, k) == [x \in DOMAIN m \ {k} |-> m[x]]

\* Capacity of `make(chan CommandResponse, 1)`.
ChanCap == 1

\* ---- connectToSocket ----

\* An onClose that does not give the error to handleError.
ReportedNever(d) == 0

\* How often the caller of execution d gives connectToSocket's error to
\* handleError: Start (d = 0) returns it, onClose calls
\* `c.handleError(fmt.Errorf("Failed to reconnect: %w", err))`.
Reported(d) == IF d = 0 THEN 0 ELSE 1

\* A loop that makes one attempt more.
LoopContinuesOnceMore(i) == i <= dialRetries

\* connectToSocket's loop condition: `i < c.dialRetries`.
LoopContinues(i) == i < dialRetries

\* Whether an attempt succeeded: nbio.DialTimeout returned no error and
\* then c.client.AddConn returned none (`if err == nil` twice).
Registered(dials, adds) == dials /\ adds

\* One pass of connectToSocket's loop in execution d, which dials
\* c.socketFile.  When the dial and AddConn succeed, c.conn is the new
\* connection.  Otherwise the
\* execution returns nil when reconnect is off, and else sleeps and goes to
\* the next attempt or, when the loop ends, returns the error.  The loop
\* counter i is kept until the execution returns.
Dial(d, dials, adds) ==
  /\ dialers[d].pc = "dial"
  /\ dialled' = dialled \cup {socketFile}
  /\ lastOk' = Registered(dials, adds)
  /\ IF Registered(dials, adds)
     THEN /\ connUp' = TRUE
          /\ dialers' = [dialers EXCEPT ![d].pc = "mark"]
     ELSE /\ dialers' = [dialers EXCEPT ![d] =
                IF ~reconnect THEN [NoDialer EXCEPT !.pc = "done"]
                ELSE IF LoopContinues(@.i + 1) THEN [@ EXCEPT !.i = @ + 1]
                ELSE [NoDialer EXCEPT !.pc = "done", !.err = TRUE,
                                      !.handled = Reported(d)]]
          /\ UNCHANGED connUp
  /\ UNCHANGED <<reconnect, isConnected, idCounter, responses, chans, calls,
                 engine, closePending, peerCloses, requests, inbound,
                 onDataPc, responded, handed, discarded>>
  /\ UNCHANGED <<txVars, epVars, launchVars, readerVars>>

\* connectToSocket after a successful attempt: `c.isConnected = true` under
\* the mutex, `return nil`.
MarkConnected(d) ==
  /\ dialers[d].pc = "mark"
  /\ isConnected' = TRUE
  /\ dialers' = [dialers EXCEPT ![d] = [NoDialer EXCEPT !.pc = "done"]]
  /\ UNCHANGED <<reconnect, idCounter, responses, chans, calls, engine, connUp,
                 closePending, peerCloses, requests, inbound, onDataPc,
                 responded, handed, discarded>>
  /\ UNCHANGED <<txVars, epVars, launchVars, attemptVars, readerVars>>

\* ---- Start, onClose, Stop ----

\* `const prefix = "UNIX_SOCKET_PATH="`, as UTF-8.
SocketPathPrefix ==
  <<85, 78, 73, 88, 95, 83, 79, 67, 75, 69, 84, 95, 80, 65, 84, 72, 61>>

\* strings.HasPrefix and strings.TrimPrefix.
HasPrefix(line, prefix) ==
  Len(line) >= Len(prefix) /\ SubSeq(line, 1, Len(prefix)) = prefix
TrimPrefix(line, prefix) ==
  IF HasPrefix(line, prefix) THEN SubSeq(line, Len(prefix) + 1, Len(line))
  ELSE line

\* Start's test after the scan, `if c.socketFile == ""`, where found says
\* whether the scan saw a line with the prefix.
PathMissing(file, found) == file = << >>

\* Start's spawn part ends after the scan with c.socketFile = file: the
\* launch error "socket path not found in output", or on to the engine.
AfterScan(file, found) ==
  IF PathMissing(file, found) THEN [pc |-> "failed", err |-> "nopath"]
  ELSE [pc |-> "scanned", err |-> "none"]

\* Start with a command (c.cmd != nil): the pipes are made and
\* `c.cmd.Start()` is called; when it fails Start returns its error.
Spawn(ok) ==
  /\ cmd
  /\ launch.pc = "none"
  /\ launch' = IF ok THEN [pc |-> "scan", err |-> "none"]
                ELSE [pc |-> "failed", err |-> "start"]
  /\ UNCHANGED <<reconnect, isConnected, idCounter, responses, chans, calls,
                 engine, connUp, closePending, peerCloses, dialers, requests,
                 inbound, onDataPc, responded, handed, discarded>>
  /\ UNCHANGED <<cmd, socketFile, output, stopResult, attemptVars, readerVars>>
  /\ UNCHANGED <<txVars, epVars>>

\* outScanner.Scan() returns the next line of the process's output (stdout
\* up to its end, then stderr): a line with the prefix sets c.socketFile to
\* its remainder and ends the scan.
ScanLine ==
  /\ launch.pc = "scan"
  /\ Len(output) > 0
  /\ output' = Tail(output)
  /\ IF HasPrefix(Head(output), SocketPathPrefix)
     THEN /\ socketFile' = TrimPrefix(Head(output), SocketPathPrefix)
          /\ launch' = AfterScan(socketFile', TRUE)
     ELSE UNCHANGED <<socketFile, launch>>
  /\ UNCHANGED <<reconnect, isConnected, idCounter, responses, chans, calls,
                 engine, connUp, closePending, peerCloses, dialers, requests,
                 inbound, onDataPc, responded, handed, discarded>>
  /\ UNCHANGED <<cmd, stopResult, attemptVars, readerVars>>
  /\ UNCHANGED <<txVars, epVars>>

\* outScanner.Scan() returns false: the output has ended, or reading it
\* failed and Start returns outScanner.Err().
ScanEnd(readFails) ==
  /\ launch.pc = "scan"
  /\ IF readFails THEN launch' = [pc |-> "failed", err |-> "read"]
     ELSE Len(output) = 0 /\ launch' = AfterScan(socketFile, FALSE)
  /\ UNCHANGED <<reconnect, isConnected, idCounter, responses, chans, calls,
                 engine, connUp, closePending, peerCloses, dialers, requests,
                 inbound, onDataPc, responded, handed, discarded>>
  /\ UNCHANGED <<cmd, socketFile, output, stopResult, attemptVars, readerVars>>
  /\ UNCHANGED <<txVars, epVars>>

\* Start after its spawn part (at once with c.cmd == nil): the engine is
\* created and started; when that fails Start returns the error, else it
\* sets reconnect and calls connectToSocket.  The client is started once.
Start(engineStarts) ==
  /\ dialers[0].pc = "none"
  /\ launch.pc = (IF cmd THEN "scanned" ELSE "none")
  /\ IF engineStarts
     THEN /\ engine' = "running"
          /\ reconnect' = TRUE
          /\ dialers' = [dialers EXCEPT ![0].pc = "dial"]
     ELSE /\ dialers' = [dialers EXCEPT ![0].pc = "done", ![0].err = TRUE]
          /\ UNCHANGED <<engine, reconnect>>
  /\ UNCHANGED <<isConnected, idCounter, responses, chans, calls, connUp,
                 closePending, peerCloses, requests, inbound, onDataPc,
                 responded, handed, discarded>>
  /\ UNCHANGED <<txVars, epVars, launchVars, attemptVars, readerVars>>

\* The peer closes the connection.  What the server wrote and the client
\* has not read by then is never read, so the connection closes when
\* nothing is unread; the server answers no request of a closed connection.
PeerClose ==
  /\ connUp
  /\ peerCloses < MaxCloses
  /\ Len(inbound) = 0
  /\ connUp' = FALSE
  /\ requests' = {}
  /\ closePending' = TRUE
  /\ peerCloses' = peerCloses + 1
  /\ UNCHANGED <<reconnect, isConnected, idCounter, responses, chans, calls,
                 engine, dialers, inbound, onDataPc, responded, handed,
                 discarded>>
  /\ UNCHANGED <<txVars, epVars, launchVars, attemptVars, readerVars>>

\* The connection that closed had been marked connected: no connectToSocket
\* execution is between its successful attempt and `c.isConnected = true`.
Established == \A d \in Dialers : dialers[d].pc # "mark"

\* onClose: isConnected is cleared and, with reconnect on, connectToSocket
\* starts.  The engine calls the handlers of a connection one at a time.
OnClose ==
  /\ closePending
  /\ onDataPc.pc = "idle"
  /\ closePending' = FALSE
  /\ isConnected' = FALSE
  /\ dialers' = IF reconnect
                THEN [dialers EXCEPT ![peerCloses] =
                        [NoDialer EXCEPT !.pc = "dial", !.est = Established]]
                ELSE dialers
  /\ UNCHANGED <<reconnect, idCounter, responses, chans, calls, engine, connUp,
                 peerCloses, requests, inbound, onDataPc, responded, handed,
                 discarded>>
  /\ UNCHANGED <<txVars, epVars, launchVars, attemptVars, readerVars>>

\* Stop with c.cmd == nil: reconnect is turned off and the engine, if there
\* is one, is stopped, which closes its connection.
Stop ==
  /\ reconnect' = FALSE
  /\ IF engine = "running"
     THEN /\ engine' = "stopped"
          /\ connUp' = FALSE
          /\ requests' = {}
          /\ inbound' = << >>
          /\ closePending' = (closePending \/ connUp)
     ELSE UNCHANGED <<engine, connUp, requests, inbound, closePending>>
  /\ UNCHANGED <<isConnected, idCounter, responses, chans, calls, peerCloses,
                 dialers, onDataPc, responded, handed, discarded>>
  /\ UNCHANGED <<txVars, epVars, launchVars, attemptVars, readerVars>>

\* ---- Command ----

\* A Command that goes on without looking at isConnected.
CommandEnterUnchecked(g) ==
  /\ calls[g].pc = "idle"
  /\ IF g = 1 THEN TRUE ELSE calls[g - 1].pc # "idle"
  /\ calls' = [calls EXCEPT ![g].pc = "alloc"]
  /\ UNCHANGED <<reconnect, isConnected, idCounter, responses, chans, engine,
                 connUp, closePending, peerCloses, dialers, requests, inbound,
                 onDataPc, responded, handed, discarded>>
  /\ UNCHANGED <<txVars, epVars, launchVars, attemptVars, readerVars>>

\* Command, `if !c.isConnected`: the call returns "Not connected" or goes on.
\* The calls are numbered in the order in which they are made.
CommandEnter(g) ==
  /\ calls[g].pc = "idle"
  /\ IF g = 1 THEN TRUE ELSE calls[g - 1].pc # "idle"
  /\ calls' = [calls EXCEPT ![g] =
       IF ~isConnected THEN [@ EXCEPT !.pc = "done", !.err = "Not connected"]
       ELSE [@ EXCEPT !.pc = "alloc"]]
  /\ UNCHANGED <<reconnect, isConnected, idCounter, responses, chans, engine,
                 connUp, closePending, peerCloses, dialers, requests, inbound,
                 onDataPc, responded, handed, discarded>>
  /\ UNCHANGED <<txVars, epVars, launchVars, attemptVars, readerVars>>

\* A counter that stays at 1 once it got there.
IncrementedOnce(n) == IF n = 0 THEN 1 ELSE n

\* `c.idCounter++`.
Incremented(n) == n + 1

\* A Command that reads the counter before it increments it.
CommandAllocIdReadFirst(g) ==
  /\ calls[g].pc = "alloc"
  /\ idCounter' = Incremented(idCounter)
  /\ calls' = [calls EXCEPT ![g].pc = "store", ![g].reqID = idCounter]
  /\ UNCHANGED <<reconnect, isConnected, responses, chans, engine, connUp,
                 closePending, peerCloses, dialers, requests, inbound,
                 onDataPc, responded, handed, discarded>>
  /\ UNCHANGED <<txVars, epVars, launchVars, attemptVars, readerVars>>

\* Command under idCounterMu: `c.idCounter++; reqID := c.idCounter`.
CommandAllocId(g) ==
  /\ calls[g].pc = "alloc"
  /\ idCounter' = Incremented(idCounter)
  /\ calls' = [calls EXCEPT ![g].pc = "store", ![g].reqID = idCounter']
  /\ UNCHANGED <<reconnect, isConnected, responses, chans, engine, connUp,
                 closePending, peerCloses, dialers, requests, inbound,
                 onDataPc, responded, handed, discarded>>
  /\ UNCHANGED <<txVars, epVars, launchVars, attemptVars, readerVars>>

\* Command: the request is marshalled and the call's new channel is stored
\* under its id.
CommandStore(g) ==
  /\ calls[g].pc = "store"
  /\ responses' = Store(responses, calls[g].reqID, g)
  /\ calls' = [calls EXCEPT ![g].pc = "write"]
  /\ UNCHANGED <<reconnect, isConnected, idCounter, chans, engine, connUp,
                 closePending, peerCloses, dialers, requests, inbound,
                 onDataPc, responded, handed, discarded>>
  /\ UNCHANGED <<txVars, epVars, launchVars, attemptVars, readerVars>>

\* Command, `c.conn.Write(reqData)`: on an open connection the server gets
\* the request and the call waits; on a closed one the call returns the
\* write error.
CommandWrite(g) ==
  /\ calls[g].pc = "write"
  /\ IF connUp
     THEN /\ requests' = requests \cup {calls[g].reqID}
          /\ calls' = [calls EXCEPT ![g].pc = "wait"]
     ELSE /\ calls' = [calls EXCEPT ![g].pc = "done", ![g].err = "Write error"]
          /\ UNCHANGED requests
  /\ UNCHANGED <<reconnect, isConnected, idCounter, responses, chans, engine,
                 connUp, closePending, peerCloses, dialers, inbound, onDataPc,
                 responded, handed, discarded>>
  /\ UNCHANGED <<txVars, epVars, launchVars, attemptVars, readerVars>>

\* Command, `case response = <-responseChan`: the call returns the response
\* of its channel.
CommandReceive(g) ==
  /\ calls[g].pc = "wait"
  /\ Len(chans[g]) > 0
  /\ calls' = [calls EXCEPT ![g].pc = "done", ![g].response = Head(chans[g])]
  /\ chans' = [chans EXCEPT ![g] = Tail(@)]
  /\ UNCHANGED <<reconnect, isConnected, idCounter, responses, engine, connUp,
                 closePending, peerCloses, dialers, requests, inbound,
                 onDataPc, responded, handed, discarded>>
  /\ UNCHANGED <<txVars, epVars, launchVars, attemptVars, readerVars>>

\* The table of response channels left as it is by a timeout.
AfterTimeoutKept(m, id) == m

\* The table of response channels after the call with request id timed out:
\* `c.responses.Delete(req.ID)`.
AfterTimeout(m, id) == Delete(m, id)

\* A select without the timer: the call can only wait for its response.
CommandWaitsForever(g) ==
  /\ calls[g].pc = "wait"
  /\ FALSE
  /\ UNCHANGED vars

\* Command, `case <-time.After(c.cmdTimeout)`: the call deletes its entry and
\* returns the timeout error.
CommandTimeout(g) ==
  /\ calls[g].pc = "wait"
  /\ responses' = AfterTimeout(responses, calls[g].reqID)
  /\ calls' = [calls EXCEPT ![g].pc = "done", ![g].err = "Timeout"]
  /\ UNCHANGED <<reconnect, isConnected, idCounter, chans, engine, connUp,
                 closePending, peerCloses, dialers, requests, inbound,
                 onDataPc, responded, handed, discarded>>
  /\ UNCHANGED <<txVars, epVars, launchVars, attemptVars, readerVars>>

\* ---- the server and onData ----

\* The server writes a response to a request it received: in any order,
\* and possibly more than one for the same request.
ServerRespond(id) ==
  /\ connUp
  /\ id \in requests
  /\ responded < MaxResponses
  /\ responded' = responded + 1
  /\ inbound' = Append(inbound, [id |-> id, serial |-> responded + 1])
  /\ UNCHANGED <<reconnect, isConnected, idCounter, responses, chans, calls,
                 engine, connUp, closePending, peerCloses, dialers, requests,
                 onDataPc, handed, discarded>>
  /\ UNCHANGED <<txVars, epVars, launchVars, attemptVars, readerVars>>

\* The table of response channels left as it is after a dispatch.
AfterDispatchKept(m, id) == m

\* The table of response channels after onData dispatched the response for
\* id: `c.responses.Delete(response.ID)`.
AfterDispatch(m, id) == Delete(m, id)

\* onData is called with a read holding one response: it is unmarshalled
\* and the channel stored under its id is loaded; without one the response
\* is dropped.
OnDataLoad ==
  /\ engine = "running"
  /\ onDataPc.pc = "idle"
  /\ Len(inbound) > 0
  /\ inbound' = Tail(inbound)
  /\ LET response == Head(inbound)
     IN IF response.id \in DOMAIN responses
        THEN /\ onDataPc' = [pc |-> "send", response |-> response,
                             ch |-> responses[response.id]]
             /\ UNCHANGED discarded
        ELSE /\ discarded' = discarded \cup {response}
             /\ UNCHANGED onDataPc
  /\ UNCHANGED <<reconnect, isConnected, idCounter, responses, chans, calls,
                 engine, connUp, closePending, peerCloses, dialers, requests,
                 responded, handed>>
  /\ UNCHANGED <<txVars, epVars, launchVars, attemptVars, readerVars>>

\* onData, `ch <- response`: blocks while the channel is full.
OnDataSend ==
  /\ onDataPc.pc = "send"
  /\ Len(chans[onDataPc.ch]) < ChanCap
  /\ chans' = [chans EXCEPT ![onDataPc.ch] = Append(@, onDataPc.response)]
  /\ handed' = Append(handed, [response |-> onDataPc.response, call |-> onDataPc.ch])
  /\ onDataPc' = [onDataPc EXCEPT !.pc = "delete"]
  /\ UNCHANGED <<reconnect, isConnected, idCounter, responses, calls, engine,
                 connUp, closePending, peerCloses, dialers, requests, inbound,
                 responded, discarded>>
  /\ UNCHANGED <<txVars, epVars, launchVars, attemptVars, readerVars>>

\* An onData that returns after the hand-over and leaves the entry.
OnDataReturnsAtOnce ==
  /\ onDataPc.pc = "delete"
  /\ onDataPc' = [pc |-> "idle", response |-> NoResponse, ch |-> 0]
  /\ UNCHANGED <<reconnect, isConnected, idCounter, responses, chans, calls,
                 engine, connUp, closePending, peerCloses, dialers, requests,
                 inbound, responded, handed, discarded>>
  /\ UNCHANGED <<txVars, epVars, launchVars, attemptVars, readerVars>>

\* onData, `c.responses.Delete(response.ID)`, and return.
OnDataDelete ==
  /\ onDataPc.pc = "delete"
  /\ responses' = AfterDispatch(responses, onDataPc.response.id)
  /\ onDataPc' = [pc |-> "idle", response |-> NoResponse, ch |-> 0]
  /\ UNCHANGED <<reconnect, isConnected, idCounter, chans, calls, engine,
                 connUp, closePending, peerCloses, dialers, requests, inbound,
                 responded, handed, discarded>>
  /\ UNCHANGED <<txVars, epVars, launchVars, attemptVars, readerVars>>

InitBridge == ListenMode /\ TxHandlerInit /\ EndpointIdle /\ NewChainBridge /\ WithSocketPath

NextBridge ==
  \/ \E engineStarts \in BOOLEAN : Start(engineStarts)
  \/ \E d \in Dialers, dials \in BOOLEAN, adds \in BOOLEAN : Dial(d, dials, adds)
  \/ \E d \in Dialers : MarkConnected(d)
  \/ PeerClose
  \/ OnClose
  \/ Stop
  \/ \E g \in Calls : CommandEnter(g)
  \/ \E g \in Calls : CommandAllocId(g)
  \/ \E g \in Calls : CommandStore(g)
  \/ \E g \in Calls : CommandWrite(g)
  \/ \E g \in Calls : CommandReceive(g)
  \/ \E g \in Calls : CommandTimeout(g)
  \/ \E id \in 1..MaxCalls : ServerRespond(id)
  \/ OnDataLoad
  \/ OnDataSend
  \/ OnDataDelete

SpecBridge == InitBridge /\ [][NextBridge]_vars

\* ---- One-shot mode (index.ts, lines 696-705) ----

\* `--help` as UTF-8.
CmdHelp == <<45, 45, 104, 101, 108, 112>>

CliCommands == ClientCommands \cup {CmdHelp}

\* The request of one-shot mode: `{ command, id: 0 }`.
CliRequest == [command |-> cli.command, id |-> 0]

\* The process ends with an exit status: "0", or "nonzero".
CliExit(c, code) == [c EXCEPT !.pc = "exited", !.code = code]

\* One-shot mode after `await executeCommand(...)` with the response res
\* printed: `if (ipfsNode) await ipfsNode.stop(); process.exit(0);`.
CliAfterCommand(res) ==
  LET c == [cli EXCEPT !.printed = Append(@, res)]
  IN IF c.ipfs THEN [c EXCEPT !.pc = "stop"] ELSE CliExit(c, "0")

\* executeCommand in one-shot mode up to its first backend await.
\* process.exit is Node's own here: for `--help` Commander writes the help
\* through writeOut and exits with 0, for a command it does not know it
\* writes the error through writeErr and exits with 1.
CliRun ==
  /\ cli.pc = "run"
  /\ cli' = IF cli.command = CmdHelp
            THEN CliExit([cli EXCEPT !.printed = <<CommandResult(CliRequest, SUCCESS)>>], "0")
            ELSE IF CommandKind(cli.command) = "unknown"
            THEN CliExit([cli EXCEPT !.printed = <<FailureResponse(CliRequest)>>], "nonzero")
            ELSE IF CommandKind(cli.command) = "tx" THEN [cli EXCEPT !.pc = "build"]
            ELSE [cli EXCEPT !.pc = "query"]
  /\ UNCHANGED <<socketFormat, txerNonce, wire, buffer, nextId, handlers, out,
                 sent, dispatched, overlap, splitSeen, multiSeen, txerBuilds,
                 exited>>
  /\ UNCHANGED <<txVars, cbVars>>

\* The backend call of a query returns (SUCCESS) or throws (FAILURE from
\* executeCommand's catch); the callback prints the response.
CliQueryReturns(status) ==
  /\ cli.pc = "query"
  /\ cli' = CliAfterCommand(CommandResult(CliRequest, status))
  /\ UNCHANGED <<socketFormat, txerNonce, wire, buffer, nextId, handlers, out,
                 sent, dispatched, overlap, splitSeen, multiSeen, txerBuilds,
                 exited>>
  /\ UNCHANGED <<txVars, cbVars>>

\* txer: client.transaction returns.
CliBuildReturns(fetched) ==
  /\ cli.pc = "build"
  /\ cli' = [cli EXCEPT !.pc = "send", !.txNonce = BuiltNonce(txerNonce, fetched)]
  /\ UNCHANGED <<socketFormat, txerNonce, wire, buffer, nextId, handlers, out,
                 sent, dispatched, overlap, splitSeen, multiSeen, txerBuilds,
                 exited>>
  /\ UNCHANGED <<txVars, cbVars>>

\* txer: tx.send() returns, the tracked nonce is set, the poll starts.
CliSendReturns ==
  /\ cli.pc = "send"
  /\ cli' = [cli EXCEPT !.pc = "status"]
  /\ txerNonce' = NextNonce(optsNonce, txerNonce, cli.txNonce)
  /\ UNCHANGED <<socketFormat, wire, buffer, nextId, handlers, out,
                 sent, dispatched, overlap, splitSeen, multiSeen, txerBuilds,
                 exited>>
  /\ UNCHANGED <<txVars, cbVars>>

\* txer: getTxnStatus returns; the callback prints the response.
CliStatusReturns(status) ==
  /\ cli.pc = "status"
  /\ cli' = CliAfterCommand(CommandResult(CliRequest, status))
  /\ UNCHANGED <<socketFormat, txerNonce, wire, buffer, nextId, handlers, out,
                 sent, dispatched, overlap, splitSeen, multiSeen, txerBuilds,
                 exited>>
  /\ UNCHANGED <<txVars, cbVars>>

\* txer throws: executeCommand's catch prints FAILURE.
CliTxerThrows ==
  /\ cli.pc \in {"build", "send", "status"}
  /\ cli' = CliAfterCommand(CommandResult(CliRequest, FAILURE))
  /\ UNCHANGED <<socketFormat, txerNonce, wire, buffer, nextId, handlers, out,
                 sent, dispatched, overlap, splitSeen, multiSeen, txerBuilds,
                 exited>>
  /\ UNCHANGED <<txVars, cbVars>>

\* `await ipfsNode.stop()` returns and `process.exit(0)` runs, or it throws
\* and the rejection of the top-level await ends the process.
CliIpfsStop(ok) ==
  /\ cli.pc = "stop"
  /\ cli' = CliExit(cli, IF ok THEN "0" ELSE "nonzero")
  /\ UNCHANGED <<socketFormat, txerNonce, wire, buffer, nextId, handlers, out,
                 sent, dispatched, overlap, splitSeen, multiSeen, txerBuilds,
                 exited>>
  /\ UNCHANGED <<txVars, cbVars>>

\* The agent started without --listen, with one command on its command
\* line, with or without --ipfs.
OneShotMode ==
  cli \in [pc : {"run"}, command : CliCommands, ipfs : BOOLEAN,
               txNonce : {Undefined}, printed : {<< >>}, code : {"none"}]

InitOneShot ==
  OneShotMode /\ TxHandlerInit /\ EndpointIdle /\ NewChainBridge /\ WithSocketPath

NextOneShot ==
  \/ CliRun
  \/ \E status \in {SUCCESS, FAILURE} : CliQueryReturns(status)
  \/ \E fetched \in 0..MaxChainNonce : CliBuildReturns(fetched)
  \/ CliSendReturns
  \/ \E status \in {SUCCESS, FAILURE, PENDING} : CliStatusReturns(status)
  \/ CliTxerThrows
  \/ \E ok \in BOOLEAN : CliIpfsStop(ok)

SpecOneShot == InitOneShot /\ [][NextOneShot]_vars

\* ---- Start with a spawned backend ----

\* The command name given to NewChainBridge, as UTF-8: "n".
CommandName == <<110>>

\* Lines a backend may print: a log line, the discovery line for "/a" and
\* for "/b", the prefix with nothing after it, and a line that has the
\* prefix after a blank.
OutputLines ==
  { <<108, 111, 103>>,
    SocketPathPrefix \o <<47, 97>>,
    SocketPathPrefix \o <<47, 98>>,
    SocketPathPrefix,
    <<32>> \o SocketPathPrefix \o <<47, 97>> }

\* The outputs of at most MaxLines lines.
Outputs == UNION {[1..n -> OutputLines] : n \in 0..MaxLines}

\* NewChainBridge called with a command and arguments: c.cmd is set and
\* c.socketFile is the command name.
WithCommand ==
  /\ cmd = TRUE
  /\ socketFile = CommandName
  /\ output \in Outputs

InitLaunch == ListenMode /\ TxHandlerInit /\ EndpointIdle /\ NewChainBridge /\ WithCommand

NextLaunch ==
  \/ \E ok \in BOOLEAN : Spawn(ok)
  \/ ScanLine
  \/ \E readFails \in BOOLEAN : ScanEnd(readFails)
  \/ \E engineStarts \in BOOLEAN : Start(engineStarts)
  \/ \E d \in Dialers, dials \in BOOLEAN, adds \in BOOLEAN : Dial(d, dials, adds)
  \/ \E d \in Dialers : MarkConnected(d)

SpecLaunch == InitLaunch /\ [][NextLaunch]_vars

\* c.cmd.Process is set: `c.cmd.Start()` has returned without error.  Until
\* then, and after a Start that failed at the pipes or at cmd.Start, the
\* field is nil.
ProcessSpawned ==
  \/ launch.pc \in {"scan", "scanned"}
  \/ launch.pc = "failed" /\ launch.err # "start"

\* What `c.cmd.Process.Signal(syscall.SIGTERM)` gives: a nil Process is
\* dereferenced and the program panics; else the signal is sent (Stop goes
\* on to os.Remove and returns nil) or Signal returns its error, which Stop
\* returns.
SignalResult(spawned, signals) ==
  IF ~spawned THEN "panic" ELSE IF signals THEN "nil" ELSE "error"

\* The program has not panicked.
Alive == stopResult # "panic"

\* Stop with c.cmd != nil, called once, at any point of Start or before it:
\* reconnect is turned off, the engine, if there is one, is stopped, and the
\* process is signalled.
StopLaunched(signals) ==
  /\ cmd
  /\ stopResult = "none"
  /\ reconnect' = FALSE
  /\ IF engine = "running"
     THEN /\ engine' = "stopped"
          /\ connUp' = FALSE
          /\ requests' = {}
          /\ inbound' = << >>
          /\ closePending' = (closePending \/ connUp)
     ELSE UNCHANGED <<engine, connUp, requests, inbound, closePending>>
  /\ stopResult' = SignalResult(ProcessSpawned, signals)
  /\ UNCHANGED <<isConnected, idCounter, responses, chans, calls, peerCloses,
                 dialers, onDataPc, responded, handed, discarded>>
  /\ UNCHANGED <<cmd, socketFile, output, launch, attemptVars, readerVars>>
  /\ UNCHANGED <<txVars, epVars>>

\* Start with a spawned backend and a Stop from another goroutine; after a
\* panic the program is gone.
NextLaunchStop ==
  \/ \E ok \in BOOLEAN : Alive /\ Spawn(ok)
  \/ Alive /\ ScanLine
  \/ \E readFails \in BOOLEAN : Alive /\ ScanEnd(readFails)
  \/ \E engineStarts \in BOOLEAN : Alive /\ Start(engineStarts)
  \/ \E d \in Dialers, dials \in BOOLEAN, adds \in BOOLEAN :
       Alive /\ Dial(d, dials, adds)
  \/ \E d \in Dialers : Alive /\ MarkConnected(d)
  \/ \E signals \in BOOLEAN : StopLaunched(signals)

SpecLaunchStop == InitLaunch /\ [][NextLaunchStop]_vars

\* ------------------------------------------------------------------------
\* Properties of the socket endpoint
\* ------------------------------------------------------------------------

IsPrefix(a, b) == Len(a) <= Len(b) /\ a = SubSeq(b, 1, Len(a))

\* Everything the client wrote has been read and no command is pending.
Quiescent(c) == Len(wire[c]) = 0 /\ Len(handlers[c]) = 0

\* The requests dispatched on c are those the client sent, in order: a
\* prefix of them at any time, all of them once the connection is quiet.
DispatchedAsSent(c) ==
  /\ IsPrefix(dispatched[c], sent[c])
  /\ Quiescent(c) => dispatched[c] = sent[c]

\* The txer calls between `tx.send()` and their result.
BroadcastsInFlight ==
  {ch \in Conns \X Slots :
     /\ ch[2] \in DOMAIN handlers[ch[1]]
     /\ handlers[ch[1]][ch[2]].stage \in {"send", "status"}}

\* C6: mutating commands in progress at the same time never have two
\* broadcasts in flight at once and never build two transactions from the
\* same tracked nonce value (they pass through one queue).
C6_SerializedMutations ==
  /\ Cardinality(BroadcastsInFlight) <= 1
  /\ \A i, j \in DOMAIN txerBuilds :
       (i < j /\ txerBuilds[i] = txerBuilds[j]) => txerBuilds[i] = Undefined

\* C7: in binary mode, when no read arrives while an earlier one is still
\* being handled, the requests dispatched are the requests of the stream in
\* stream order, for every cutting of the bytes into reads.
C7_FrameIndependence ==
  socketFormat = "cbor" =>
    \A c \in Conns : ~overlap[c] => DispatchedAsSent(c)

\* Two requests have been dispatched from reads of which one ended inside a
\* message and one completed two messages, none arriving during an await.
C7_Witness ==
  /\ socketFormat = "cbor"
  /\ \E c \in Conns :
       /\ ~overlap[c] /\ Quiescent(c)
       /\ Len(sent[c]) = 2 /\ dispatched[c] = sent[c]
       /\ splitSeen[c] /\ multiSeen[c]

\* C8: in binary mode every request received on a connection is dispatched
\* exactly once and in arrival order, also when a read arrives while the
\* dispatch of an earlier request is awaiting its result.
C8_DispatchedOnce ==
  socketFormat = "cbor" => \A c \in Conns : DispatchedAsSent(c)

\* The ids of the requests of a log, in its order.
IdsOf(log) == [i \in 1..Len(log) |-> log[i].id]

\* On connection c at most one dispatched request is without its response
\* and the responses were written in the order of the dispatches.
OneAtATime(c) ==
  /\ Len(handlers[c]) <= 1
  /\ IsPrefix(IdsOf(out[c]), IdsOf(dispatched[c]))

Answered == {g \in Calls : calls[g].pc = "done" /\ calls[g].err = "none"}

\* C10: a Command call that returns a response returns the one carrying
\* its own request id, in whatever order the responses arrive; no response
\* is returned by two calls, and of the responses carrying one id at most
\* one is handed over, the others are dropped.
C10_Correlation ==
  /\ \A g \in Answered : calls[g].response.id = calls[g].reqID
  /\ \A g \in Calls : \A k \in DOMAIN chans[g] : chans[g][k].id = calls[g].reqID
  /\ \A g, h \in Answered : g # h => calls[g].response # calls[h].response
  /\ \A i, j \in DOMAIN handed :
       i # j => handed[i].response.id # handed[j].response.id

\* Two calls returned their responses although the response to the later
\* request arrived first, and a second response to an answered request was
\* dropped.
C10_Witness ==
  /\ Cardinality(Answered) = 2
  /\ Len(handed) = 2
  /\ handed[1].response.id > handed[2].response.id
  /\ \E r \in discarded : \E g \in Answered : r.id = calls[g].reqID

\* The Command calls that returned the timeout error.
TimedOut == {g \in Calls : calls[g].pc = "done" /\ calls[g].err = "Timeout"}

\* C11: a Command call that gets no response in time returns the timeout
\* error with its entry removed from the table; a response with its id that
\* comes later, or that onData holds at that moment, reaches no call: not
\* the one that timed out and not any other.
C11_TimeoutSafety ==
  \A g \in TimedOut :
    /\ calls[g].response = NoResponse
    /\ calls[g].reqID \notin DOMAIN responses
    /\ \A h \in Calls \ {g} :
         /\ calls[h].response.id # calls[g].reqID
         /\ \A k \in DOMAIN chans[h] : chans[h][k].id # calls[g].reqID
    /\ \A i \in DOMAIN handed :
         handed[i].response.id = calls[g].reqID => handed[i].call = g

\* A call timed out while onData held the response to it, which went into
\* the channel no one reads any more; a further response with that id came
\* after the timeout and was dropped.
C11_Witness ==
  \E g \in TimedOut :
    /\ \E i \in DOMAIN handed : handed[i].call = g
    /\ \E r \in discarded : r.id = calls[g].reqID
    /\ onDataPc.pc = "idle"

C13_UniqueIncreasingIds ==
  [][\A g \in Calls :
       calls'[g].reqID # calls[g].reqID =>
         /\ calls[g].reqID = 0
         /\ calls'[g].reqID = idCounter'
         /\ idCounter' > idCounter
         /\ \A h \in Calls : calls[h].reqID < calls'[g].reqID]_vars

\* Call 1 was answered on a connection that has since been closed; call 2
\* wrote its request, with the next id, on the connection made afterwards.
C13_Witness ==
  /\ peerCloses > 0
  /\ calls[1].pc = "done" /\ calls[1].err = "none" /\ calls[1].reqID = 1
  /\ calls[2].pc = "wait" /\ calls[2].reqID = 2
  /\ requests = {2}

\* C14: Start's connectToSocket makes its attempts one after the other.
\* When attempt number i+1 is the first to succeed (i failed before it, i
\* less than dialRetries), the client was not connected until then and Start
\* returns nil with isConnected set, without a further attempt.  When
\* dialRetries attempts have failed, Start returns the error after exactly
\* that many attempts and isConnected is still false (reconnect being on).
C14_DialRetryBound ==
  [][LET d == dialers[0]
         e == dialers'[0]
     IN /\ (d.pc = "dial" /\ e.pc = "mark") =>
             d.i < dialRetries /\ e.i = d.i /\ ~isConnected /\ ~isConnected'
        /\ (d.pc = "mark" /\ e.pc = "done") => ~e.err /\ isConnected'
        /\ (d.pc = "dial" /\ e.pc = "dial" /\ e # d) =>
             e.i = d.i + 1 /\ e.i < dialRetries /\ ~isConnected'
        /\ (d.pc = "dial" /\ e.pc = "done" /\ reconnect) =>
             e.err /\ d.i + 1 = dialRetries /\ ~isConnected'
        /\ d.pc \in {"mark", "done"} => e.pc # "dial"]_vars

\* Start's third attempt has succeeded after two failed ones; isConnected
\* is about to be set.
C14_Witness ==
  /\ dialers[0].pc = "mark"
  /\ dialers[0].i = 2
  /\ connUp /\ ~isConnected

\* The connectToSocket executions started by onClose.
Reconnects == Dialers \ {0}

\* C15: when a connection that had been marked connected closes and
\* reconnect is on, onClose first clears isConnected and then runs
\* connectToSocket from its first attempt.  When an attempt succeeds
\* isConnected is set again.  When dialRetries attempts have failed (and
\* reconnect is still on) handleError is called once with the reconnect
\* failure, isConnected stays false and no further attempt is made.
C15_ReconnectOnClose ==
  [][/\ (closePending /\ ~closePending' /\ reconnect /\ reconnect' /\ Established) =>
          /\ ~isConnected'
          /\ \E d \in Reconnects :
               /\ dialers[d].pc = "none"
               /\ dialers'[d] = [NoDialer EXCEPT !.pc = "dial", !.est = TRUE]
     /\ \A d \in Reconnects :
          LET a == dialers[d]
              b == dialers'[d]
          IN /\ (a.pc = "dial" /\ b.pc = "mark") => a.i < dialRetries
             /\ (a.pc = "mark" /\ b.pc = "done") => isConnected' /\ ~b.err
             /\ (a.pc = "dial" /\ b.pc = "done" /\ reconnect /\ a.est) =>
                  /\ a.i + 1 = dialRetries
                  /\ b.err /\ b.handled = 1
                  /\ ~isConnected'
             /\ a.pc = "done" => b = a]_vars

\* After the connection closed, the reconnect gave up after dialRetries
\* attempts and reported it once; the client stays not connected.
C15_Witness ==
  \E d \in Reconnects :
    /\ dialers[d].pc = "done" /\ dialers[d].err /\ dialers[d].handled = 1
    /\ reconnect /\ ~isConnected /\ ~connUp
    /\ calls[1].pc = "done" /\ calls[1].err = "none"

\* C16: once Stop has cleared reconnect, no connectToSocket execution makes
\* a further dial attempt, also not one that was sleeping between two
\* attempts (its counter i is past 0) when Stop was called.
C16_NoDialAfterStop ==
  [][\A d \in Dialers :
       (~reconnect /\ dialers[d].pc = "dial" /\ dialers[d].i > 0) =>
          dialers'[d] = dialers[d]]_vars

\* The part of sequence s2 that was appended to s1.
Appended(s1, s2) == SubSeq(s2, Len(s1) + 1, Len(s2))

\* C18: a command the program does not know, and a command that throws, is
\* answered with status FAILURE and an error text; the endpoint process
\* does not end, and on every connection each request dispatched, before
\* or after a failure, has its response once no command is awaited.
C18_FailureKeepsServing ==
  [][/\ ~exited'
     /\ \A c \in Conns :
          LET newD == Appended(dispatched[c], dispatched'[c])
              newO == Appended(out[c], out'[c])
          IN /\ \A i \in DOMAIN newD :
                  CommandKind(newD[i].command) = "unknown" =>
                    \E j \in DOMAIN newO :
                      newO[j] = [id |-> newD[i].id, status |-> FAILURE,
                                 error |-> TRUE]
             /\ \A j \in DOMAIN newO : newO[j].status = FAILURE => newO[j].error
             /\ Len(handlers'[c]) = 0 => Len(out'[c]) = Len(dispatched'[c])]_vars

\* An unknown command was answered FAILURE and the request after it on the
\* same connection was answered SUCCESS.
C18_Witness ==
  /\ ~exited
  /\ Len(dispatched[1]) = 2 /\ Len(out[1]) = 2
  /\ dispatched[1][1].command = CmdUnknown
  /\ out[1][1] = [id |-> dispatched[1][1].id, status |-> FAILURE, error |-> TRUE]
  /\ dispatched[1][2].command = CmdQuery
  /\ out[1][2].status = SUCCESS

\* How many elements of the sequence of records s have the id v.
RECURSIVE CountId(_, _)
CountId(s, v) ==
  IF Len(s) = 0 THEN 0
  ELSE (IF Head(s).id = v THEN 1 ELSE 0) + CountId(Tail(s), v)

\* The requests of the commands that the handler calls in hs await.
RECURSIVE RequestsOf(_)
RequestsOf(hs) ==
  IF Len(hs) = 0 THEN <<>> ELSE <<Head(hs).req>> \o RequestsOf(Tail(hs))

\* The ids a binary request can carry, and none.
RequestIds == {NoId} \cup (1..MaxRequests)

\* C19: in binary mode every response carries the id of its request, or
\* none when the request had none: for every id (and for no id) the
\* responses written with it, together with the commands still awaited for
\* requests with it, are exactly the requests dispatched with it.
C19_ResponseCarriesRequestId ==
  socketFormat = "cbor" =>
    \A c \in DOMAIN out : \A v \in RequestIds :
      /\ CountId(out[c], v) + CountId(RequestsOf(handlers[c]), v)
           = CountId(dispatched[c], v)
      /\ \A j \in DOMAIN out[c] : out[c][j].id \in RequestIds

\* On one connection a request with id 1 failed, a request without id
\* succeeded, and each response carries what its request carried.
C19_Witness ==
  /\ socketFormat = "cbor"
  /\ sent[1] = <<[command |-> CmdUnknown, id |-> 1], [command |-> CmdQuery, id |-> NoId]>>
  /\ dispatched[1] = sent[1]
  /\ out[1] = <<[id |-> 1, status |-> FAILURE, error |-> TRUE],
                [id |-> NoId, status |-> SUCCESS, error |-> FALSE]>>

\* The tasks whose transaction was broadcast.
Broadcast == {broadcasts[i].task : i \in DOMAIN broadcasts}

\* C20 as stated: the promise of a task whose transaction was broadcast is
\* never rejected.
C20_BroadcastNeverRejected ==
  \A t \in Broadcast : promise[t] # "rejected"

\* C20 for polls that return: when getTxStatus returns a status for a
\* broadcast transaction, processTx returns a response with that status and
\* the transaction identifier, error set only with FAILURE and data only
\* without, and processQueue resolves the task's promise with that
\* response; when getTxStatus throws, the promise is rejected.
C20_ResolvedWithPollStatus ==
  [][\A w \in Tasks :
       LET a == workers[w]
           b == workers'[w]
       IN /\ (a.pc = "status" /\ b.pc = "returned" /\ b.result # "throw") =>
               /\ a.task \in Broadcast
               /\ b.result \in {SUCCESS, FAILURE, PENDING}
               /\ b.response.status = b.result
               /\ b.response.tx
               /\ b.response.error => b.result = FAILURE
               /\ b.response.data => b.result # FAILURE
          /\ (a.pc = "returned" /\ b # a /\ a.task \in Broadcast) =>
               /\ promise[a.task] = "pending"
               /\ IF a.result = "throw"
                  THEN promise'[a.task] = "rejected" /\ values'[a.task] = NoValue
                  ELSE promise'[a.task] = "resolved" /\ values'[a.task] = a.response]_vars

\* Three broadcast transactions were resolved with the three statuses: the
\* FAILURE with an error and no data, the others with data and no error.
C20_Witness ==
  /\ Broadcast = Tasks
  /\ \A t \in Tasks : promise[t] = "resolved" /\ values[t].tx
  /\ values[1] = [status |-> FAILURE, data |-> FALSE, error |-> TRUE, tx |-> TRUE]
  /\ values[2] = [status |-> PENDING, data |-> TRUE, error |-> FALSE, tx |-> TRUE]
  /\ values[3].status = SUCCESS

\* The scan has ended and no line of the output it read had the prefix.
ScanFoundNothing ==
  /\ cmd
  /\ launch.pc \in {"scanned", "failed"} /\ launch.err \notin {"start", "read"}
  /\ output = << >>
  /\ socketFile = CommandName

\* C21: with a spawned backend, when the output ends without a line that
\* starts with UNIX_SOCKET_PATH=, Start has failed with the launch error and
\* no address was dialled; and every address dialled is the remainder of
\* the line with the prefix that the scan stopped at.
C21_DiscoveryOrLaunchError ==
  /\ ScanFoundNothing => launch.err = "nopath" /\ dialled = {}
  /\ cmd => \A a \in dialled :
              \E l \in OutputLines : HasPrefix(l, SocketPathPrefix)
                                      /\ a = TrimPrefix(l, SocketPathPrefix)

\* C22: in one-shot mode the agent prints the result of its command and
\* exits with status 0, whatever the outcome of the command.
C22_OneShotExitsZero ==
  cli.pc = "exited" => cli.code = "0" /\ Len(cli.printed) = 1

\* The commands of a sequence of requests.
RECURSIVE CommandsOf(_)
CommandsOf(reqs) ==
  IF Len(reqs) = 0 THEN << >> ELSE <<Head(reqs).command>> \o CommandsOf(Tail(reqs))

\* C23: in text mode the requests dispatched on a connection are the lines
\* the client sent, one request per line with the line as its command, in
\* order, however the bytes were grouped into reads; when everything the
\* client wrote has been read, every line has been dispatched.
C23_OneRequestPerLine ==
  socketFormat = "text" =>
    \A c \in DOMAIN dispatched :
      /\ IsPrefix(CommandsOf(dispatched[c]), CommandsOf(sent[c]))
      /\ Len(wire[c]) = 0 => Len(dispatched[c]) = Len(sent[c])

KeyStatus == <<115, 116, 97, 116, 117, 115>>
SuccessText == <<83, 85, 67, 67, 69, 83, 83>>

\* The endpoint's `cbor.encode(res)` of the response {id, status: SUCCESS}.
EncodeResponse(id) ==
  <<MajorMap * HeadUnit + 2>> \o EncText(KeyId) \o EncUint(id)
    \o EncText(KeyStatus) \o EncText(SuccessText)

\* The most bytes the stream holds.
StreamBound == MaxResponses * Len(EncodeResponse(1))

\* `cbor.Unmarshal(data, &response)`: an error when data holds no complete
\* item or an item that is no map.  Bytes after the first item are an error
\* in the releases of the library that check for them (strict) and are
\* ignored in the others.  A response without id has ID 0.
Unmarshal(data, strict) ==
  LET r == DecodeItem(data, 1)
      absent == [t |-> "absent"]
  IN IF ~r.ok THEN DecodeFail
     ELSE IF strict /\ r.next - 1 < Len(data) THEN DecodeFail
     ELSE IF r.value.t # "map" THEN DecodeFail
     ELSE LET i == MapGet(r.value.kv, 1, KeyId, absent)
          IN [ok |-> TRUE, id |-> IF i.t = "uint" THEN i.n ELSE 0]

\* The server writes the response to a request it received to the stream.
ServerWrite(id) ==
  /\ connUp
  /\ id \in requests
  /\ responded < MaxResponses
  /\ responded' = responded + 1
  /\ stream' = stream \o EncodeResponse(id)
  /\ written' = Append(written, id)
  /\ UNCHANGED <<reconnect, isConnected, idCounter, responses, chans, calls,
                 engine, connUp, closePending, peerCloses, dialers, requests,
                 inbound, onDataPc, handed, discarded, decoded>>
  /\ UNCHANGED <<txVars, epVars, launchVars, attemptVars>>

\* onData is called with a read of the first k unread bytes of the stream:
\* the read is unmarshalled as one response; on an error it is reported and
\* dropped, else the channel stored under the response's id is loaded.
OnDataRead(k, strict) ==
  /\ engine = "running"
  /\ onDataPc.pc = "idle"
  /\ k <= Len(stream)
  /\ stream' = SubArray(stream, k)
  /\ LET r == Unmarshal(SubSeq(stream, 1, k), strict)
     IN IF ~r.ok
        THEN UNCHANGED <<decoded, onDataPc, discarded>>
        ELSE LET response == [id |-> r.id, serial |-> Len(decoded) + 1]
             IN /\ decoded' = Append(decoded, r.id)
                /\ IF r.id \in DOMAIN responses
                   THEN /\ onDataPc' = [pc |-> "send", response |-> response,
                                        ch |-> responses[r.id]]
                        /\ UNCHANGED discarded
                   ELSE /\ discarded' = discarded \cup {response}
                        /\ UNCHANGED onDataPc
  /\ UNCHANGED <<reconnect, isConnected, idCounter, responses, chans, calls,
                 engine, connUp, closePending, peerCloses, dialers, requests,
                 inbound, responded, handed, written>>
  /\ UNCHANGED <<txVars, epVars, launchVars, attemptVars>>

NextReader ==
  \/ \E engineStarts \in BOOLEAN : Start(engineStarts)
  \/ \E d \in Dialers, dials \in BOOLEAN, adds \in BOOLEAN : Dial(d, dials, adds)
  \/ \E d \in Dialers : MarkConnected(d)
  \/ \E g \in Calls : CommandEnter(g)
  \/ \E g \in Calls : CommandAllocId(g)
  \/ \E g \in Calls : CommandStore(g)
  \/ \E g \in Calls : CommandWrite(g)
  \/ \E g \in Calls : CommandReceive(g)
  \/ \E g \in Calls : CommandTimeout(g)
  \/ \E id \in 1..MaxCalls : ServerWrite(id)
  \/ \E k \in 1..StreamBound, strict \in BOOLEAN : OnDataRead(k, strict)
  \/ OnDataSend
  \/ OnDataDelete

\* The Bridge Client with the server's responses as bytes cut into reads.
SpecReader == InitBridge /\ [][NextReader]_vars

\* C25: onData finds the boundaries of the responses in the bytes: the
\* responses it unmarshals are those the server wrote, in order, however
\* the bytes are cut into reads, and all of them once every byte is read.
C25_EveryResponseDecoded ==
  /\ IsPrefix(decoded, written)
  /\ Len(stream) = 0 => decoded = written

\* Call g returns the timeout error in this step.
TimesOut(g) ==
  /\ calls[g].pc = "wait"
  /\ calls'[g].pc = "done" /\ calls'[g].err = "Timeout"

\* C26: a step in which a Command call times out changes nothing but that
\* call and its own entry of the table: the connection, isConnected,
\* reconnect and idCounter stay as they are, every other call keeps its
\* position, its entry and the content of its channel, and what the server
\* received and wrote is not touched, so the other calls get their
\* responses as they would have without the timeout.
C26_TimeoutFrame ==
  [][\A g \in Calls : TimesOut(g) =>
       /\ <<connUp, engine, isConnected, reconnect, idCounter>>'
            = <<connUp, engine, isConnected, reconnect, idCounter>>
       /\ <<requests, inbound, onDataPc, chans>>'
            = <<requests, inbound, onDataPc, chans>>
       /\ \A h \in Calls \ {g} : calls'[h] = calls[h]
       /\ \A id \in DOMAIN responses \ {calls[g].reqID} :
            id \in DOMAIN responses' /\ responses'[id] = responses[id]]_vars

\* The second call timed out while the first, made before it, was still
\* waiting; the connection is up and the response to the first call is in
\* its channel, where the call will take it.
C26_Witness ==
  \E g \in TimedOut, h \in Calls :
    /\ h < g
    /\ calls[h].pc = "wait"
    /\ calls[h].reqID \notin DOMAIN responses
    /\ Len(chans[h]) = 1 /\ chans[h][1].id = calls[h].reqID
    /\ calls[g].reqID # calls[h].reqID
    /\ onDataPc.pc = "idle"
    /\ connUp /\ isConnected

\* C27: isConnected is true only if the most recent dial attempt succeeded
\* in both its parts, the dial of the socket and AddConn; an attempt whose
\* AddConn failed is a failed attempt and leaves isConnected false.
C27_ConnectedOnlyIfRegistered == isConnected => lastOk

\* ---- the Bridge Client with its goroutines scheduled fairly ----

\* A step of connectToSocket execution d.
DialerStep(d) ==
  \/ \E dials \in BOOLEAN, adds \in BOOLEAN : Dial(d, dials, adds)
  \/ MarkConnected(d)

\* A step of onData.
OnDataStep == OnDataLoad \/ OnDataSend \/ OnDataDelete

\* A step of Command call g after its entry; a waiting call gets its
\* response or its timer fires.
CallStep(g) ==
  \/ CommandAllocId(g)
  \/ CommandStore(g)
  \/ CommandWrite(g)
  \/ CommandReceive(g)
  \/ CommandTimeout(g)

\* Every goroutine that can take a step takes one in the end: the engine
\* reports a close, a connectToSocket execution goes on (dial attempts time
\* out), onData goes on, a Command call goes on.  Start, Stop, new Command
\* calls, and what the peer does are up to the caller and the peer.
SpecBridgeFair ==
  /\ InitBridge
  /\ [][NextBridge]_vars
  /\ WF_vars(OnClose)
  /\ \A d \in Dialers : WF_vars(DialerStep(d))
  /\ WF_vars(OnDataStep)
  /\ \A g \in Calls : WF_vars(CallStep(g))

\* Stop was called after Start: reconnect is off for good.
StoppedAfterStart == ~reconnect /\ dialers[0].pc # "none"

\* C28: after Stop on a client that Start has connected or is connecting,
\* isConnected becomes false in the end and stays false (so that every later
\* Command call returns "Not connected").
C28_DisconnectedAfterStop == <>[](StoppedAfterStart => ~isConnected)

\* C29: with nonce tracking the tracked nonce changes only in the step in
\* which tx.send() returns for a built transaction, where it becomes that
\* transaction's nonce plus 1, before the status poll; the return of the
\* poll, whatever its status, and a task that throws leave it as it is; it
\* never decreases.
C29_TrackedNonce ==
  [][optsNonce =>
       /\ \A w \in Tasks :
            (workers[w].pc = "send" /\ workers'[w].pc = "status") =>
              nonce' = workers[w].txNonce + 1
       /\ nonce' # nonce =>
            \E w \in Tasks : /\ workers[w].pc = "send" /\ workers[w].hasTx
                             /\ workers'[w].pc = "status"
       /\ \A w \in Tasks :
            (workers[w].pc # "returned" /\ workers'[w].pc = "returned") =>
              nonce' = nonce
       /\ nonce # Undefined => nonce' # Undefined /\ nonce' >= nonce]_vars

\* With tracking, task 1 was broadcast and its poll reported FAILURE, task 2
\* threw, and the tracked nonce is the nonce of task 1's transaction plus 1.
C29_Witness ==
  /\ optsNonce
  /\ Len(broadcasts) = 1 /\ broadcasts[1].task = 1
  /\ promise[1] = "resolved" /\ values[1].status = FAILURE
  /\ promise[2] = "rejected"
  /\ nonce = broadcasts[1].nonce + 1

\* C30: the result slot of a submitted task is settled exactly once: resolve
\* or reject has been called once for a settled task and not at all for a
\* pending one, never both and never a second time, and a task has a
\* response exactly if it was resolved.
C30_SettledExactlyOnce ==
  \A t \in Tasks :
    /\ settleCalls[t] = (IF Settled(t) THEN 1 ELSE 0)
    /\ (values[t] # NoValue) = (promise[t] = "resolved")

\* Every task is settled, the first resolved, a later one rejected, and a
\* task that was submitted while another was in flight is among them.
C30_Witness ==
  /\ \A t \in Tasks : Settled(t)
  /\ promise[1] = "resolved"
  /\ \E t \in Tasks : promise[t] = "rejected" /\ submitPhase[t] = "busy"

\* C31: the nonce given to client.transaction is the tracked nonce as it is
\* when the task starts.  Without tracking it is absent; with tracking it
\* is absent as long as no broadcast has succeeded and is the tracked nonce
\* after that.
C31_NonceHint ==
  /\ ~optsNonce => nonce = Undefined
  /\ optsNonce => ((nonce = Undefined) = (Len(broadcasts) = 0))
  /\ \A w \in Tasks : workers[w].pc \in {"build", "send"} =>
                         workers[w].nonceArg = nonce

\* With tracking, a task is being built after an earlier broadcast
\* succeeded and a task between them failed: it is given the tracked nonce.
C31_Witness ==
  /\ optsNonce
  /\ Len(broadcasts) = 1 /\ broadcasts[1].task = 1
  /\ promise[2] = "rejected"
  /\ \E w \in Tasks : /\ workers[w].pc = "build" /\ workers[w].task = 3
                      /\ workers[w].nonceArg = broadcasts[1].nonce + 1

\* The bytes of connection c read in this step.
ReadNow(c) == SubSeq(wire[c], 1, Len(wire[c]) - Len(wire'[c]))

\* C32: in binary mode, when a read arrives and the head of the buffer with
\* the read appended cannot be decoded, the buffer becomes exactly those
\* bytes, nothing is dispatched, no command is started and nothing is
\* written; and as long as no command of the connection is pending, only a
\* read changes the buffer, the dispatches or the responses.
C32_DecodeFailureFrame ==
  [][socketFormat = "cbor" =>
       \A c \in Conns :
         /\ (Len(wire'[c]) < Len(wire[c])
               /\ ~DecodeFirstSync(buffer[c] \o ReadNow(c)).ok) =>
              /\ buffer'[c] = buffer[c] \o ReadNow(c)
              /\ dispatched'[c] = dispatched[c]
              /\ handlers'[c] = handlers[c]
              /\ out'[c] = out[c]
         /\ (Len(wire'[c]) >= Len(wire[c]) /\ Len(handlers[c]) = 0) =>
              /\ buffer'[c] = buffer[c]
              /\ dispatched'[c] = dispatched[c]
              /\ out'[c] = out[c]]_vars

\* A connection holds the first bytes of its one request in its buffer, the
\* rest is not yet read, and nothing was dispatched or written on it.
C32_Witness ==
  \E c \in Conns :
    /\ socketFormat = "cbor"
    /\ Len(buffer[c]) >= 2 /\ ~DecodeFirstSync(buffer[c]).ok
    /\ Len(wire[c]) > 0
    /\ Len(sent[c]) = 1
    /\ dispatched[c] = << >> /\ out[c] = << >>

\* C33: the table of response channels holds entries only for calls that
\* are still waiting: the entry a call stored is gone when the call has
\* returned, whether with a response, the timeout error or a write error
\* (an entry whose response onData has just handed over and is about to
\* delete is let through).
C33_EntriesOnlyForWaitingCalls ==
  \A id \in DOMAIN responses :
    \/ calls[responses[id]].pc \in {"write", "wait"}
    \/ onDataPc.pc = "delete" /\ onDataPc.response.id = id

\* C34: when Start returns without an error the client is connected: in the
\* step in which Start's connectToSocket returns nil, isConnected is true,
\* also when Stop ran during the dial attempts.
C34_StartSuccessMeansConnected ==
  [][(dialers[0].pc # "done" /\ dialers'[0].pc = "done" /\ ~dialers'[0].err)
       => isConnected']_vars

\* The Bridge Client where only the Command calls are sure to go on: the
\* caller's goroutines run and their timers fire; nothing is assumed of the
\* engine, the reconnects or the peer.
SpecBridgeCallsFair ==
  /\ InitBridge
  /\ [][NextBridge]_vars
  /\ \A g \in Calls : WF_vars(CallStep(g))

\* C35: every Command call returns in the end: a call that has been entered
\* is not for ever short of its return, whether its response comes or not,
\* and also when the connection closes, the client reconnects or Stop is
\* called while it waits.
C35_CommandReturns ==
  \A g \in Calls : []<>(calls[g].pc \in {"idle", "done"})

\* A call returned the timeout error on a stopped client without ever having
\* been handed a response, and another call got its response.
C35_Witness ==
  \E g \in TimedOut, h \in Calls :
    /\ engine = "stopped" /\ ~reconnect
    /\ \A i \in DOMAIN handed : handed[i].call # g
    /\ calls[h].pc = "done" /\ calls[h].err = "none"

\* The responses handed to call g so far.
HandedTo(g) == {i \in DOMAIN handed : handed[i].call = g}

\* C36: onData never blocks at `ch <- response`: whenever it is about to
\* send, the channel is empty, and no channel is handed more than one
\* response, with duplicate responses, timeouts and deletions interleaved.
C36_OnDataNeverBlocks ==
  /\ onDataPc.pc = "send" => Len(chans[onDataPc.ch]) < ChanCap
  /\ \A g \in Calls : Cardinality(HandedTo(g)) <= 1 /\ Len(chans[g]) <= ChanCap

\* The server answered one request twice: the first response is in the
\* channel of its call, which has not taken it yet, and the second found no
\* entry and was dropped; another call timed out.
C36_Witness ==
  \E g \in Calls, r \in discarded :
    /\ calls[g].pc = "wait"
    /\ Len(chans[g]) = 1 /\ chans[g][1].id = calls[g].reqID
    /\ r.id = calls[g].reqID
    /\ TimedOut # {}

\* `cbor.Marshal(req)` of CommandRequest{Command, ID}: a field tagged
\* omitempty is left out when it is zero.
MarshalRequest(command, id) ==
  EncodeRequest([command |-> command, id |-> IF id = 0 THEN NoId ELSE id])

\* A response without id: the map {status: SUCCESS}.
IdlessResponse ==
  <<MajorMap * HeadUnit + 1>> \o EncText(KeyStatus) \o EncText(SuccessText)

\* The calls that have taken a request id.
WithRequestId == {g \in Calls : calls[g].pc \in {"store", "write", "wait"}
                                  \/ (calls[g].pc = "done" /\ calls[g].err # "Not connected")}

\* C37: every request id a Command takes is at least 1, so the encoding of
\* its request carries the id; the keys of the table are such ids, so a
\* response without id, which unmarshals to ID 0, finds no entry.
C37_RequestIdsPositive ==
  /\ \A g \in WithRequestId :
       /\ calls[g].reqID >= 1
       /\ AsCommandRequest(DecodeFirstSync(MarshalRequest(CmdQuery, calls[g].reqID)).value).id
            = calls[g].reqID
  /\ \A id \in DOMAIN responses : id >= 1
  /\ Unmarshal(IdlessResponse, TRUE).ok
  /\ Unmarshal(IdlessResponse, TRUE).id \notin DOMAIN responses \cup requests

\* The first two calls of a client have written their requests, with the
\* ids 1 and 2, and wait with their entries in the table.
C37_Witness ==
  /\ calls[1].pc = "wait" /\ calls[2].pc = "wait"
  /\ {calls[1].reqID, calls[2].reqID} = {1, 2}
  /\ DOMAIN responses = {1, 2}
  /\ requests = {1, 2}

C39_StopBeforeSpawnReturns ==
  ~ProcessSpawned => stopResult \in {"none", "nil"}

\* C40: whenever the worker is not running the queue is empty; the task
\* being processed is the head of the queue and its promise is not settled;
\* and the queue holds exactly the tasks whose promise is pending, so a task
\* leaves the queue when it is settled, before the next task starts.
C40_QueueMatchesWorker ==
  /\ ~isProcessing => txQueue = <<>>
  /\ \A w \in Tasks : InFlight(w) =>
       /\ isProcessing
       /\ Len(txQueue) > 0
       /\ Head(txQueue) = workers[w].task
       /\ promise[workers[w].task] = "pending"
  /\ \A t \in Tasks :
       (promise[t] = "pending") = (\E i \in DOMAIN txQueue : txQueue[i] = t)

\* The first task is settled and gone from the queue, the second is being
\* processed at the head of the queue with the third queued behind it.
C40_Witness ==
  /\ Settled(1)
  /\ txQueue = <<2, 3>>
  /\ isProcessing
  /\ \E w \in Tasks : InFlight(w) /\ workers[w].task = 2

====
